---------------------------- MODULE Spec2Model ----------------------------
(***************************************************************************)
(* A model of the sampling core of UQpy (src/src/UQpy/SampleMethods.py):   *)
(* the Strata partition of the unit hypercube, Refined Stratified Sampling *)
(* (RSS.run_rss) and the Markov chain samplers (MCMC.run_mcmc).            *)
(*                                                                         *)
(* Real numbers are modelled exactly.  Each axis a of the unit hypercube   *)
(* is divided into n_strata[a] * Scale grid units, so that every origin    *)
(* and width the code can produce within MaxNew halvings is an integer     *)
(* number of grid units, and a volume is an integer number of grid cells.  *)
(* Boxes are the half-open products [origin, origin + width), which is the *)
(* range numpy.random.uniform(low, high) draws from.                       *)
(***************************************************************************)
EXTENDS Integers, Sequences, FiniteSets, TLC

\* Largest number of samples an RSS run adds to the initial design.
MaxNew == 2

\* The window factor ff of the local update stays below this.
MaxFf == 8

RECURSIVE Pow2(_)
Pow2(n) == IF n = 0 THEN 1 ELSE 2 * Pow2(n - 1)

\* Grid units per initial stratum width: fine enough for MaxNew halvings.
Scale == Pow2(MaxNew)

RECURSIVE SeqProd(_)
SeqProd(s) == IF s = <<>> THEN 1 ELSE Head(s) * SeqProd(Tail(s))

RECURSIVE SeqSum(_)
SeqSum(s) == IF s = <<>> THEN 0 ELSE Head(s) + SeqSum(Tail(s))

SeqMax(s) == CHOOSE m \in {s[k] : k \in DOMAIN s} : \A k \in DOMAIN s : s[k] <= m

Range(s) == {s[k] : k \in DOMAIN s}

VARIABLES
    \* ---- the design handed to RSS and the RSS configuration ----
    n_strata,      \* Strata.n_strata: strata per axis of the initial design
    dist_params,   \* per-axis (loc, scale) of the marginal distribution
    option,        \* RSS.option: "Refined" | "Gradient"
    cut_type,      \* RSS.cut_type: "None" | "0" | "1"
    nSamples,      \* RSS.nSamples
    \* ---- the locals of RSS.run_rss, returned as the final design ----
    origins,       \* sequence over strata of per-axis origins (grid units)
    widths,        \* sequence over strata of per-axis widths (grid units)
    weights,       \* sequence over strata of weights (grid cells)
    samplesU01,    \* sequence of unit-cube samples (grid units)
    samples,       \* sequence of physical-space samples
    rss_pc,        \* "run" | "train" | "update" | "done" | "raised"
    last,          \* the last iteration: what it split and how
    n_iter,        \* iterations of the RSS loop completed
    n_halved,      \* those of them whose dir2break named an axis
    min_train_size,\* RSS.min_train_size: <<>> for None, <<m>> for the integer m
    ff,            \* the window factor of the local update
    ind_train,     \* indices (from 0) of the local training points
    ind_update,    \* indices (from 0) of the strata whose gradient is updated
    x_design,      \* the attributes of the design object x handed to RSS
    \* ---- MCMC: the constructor's arguments and the object's attributes ----
    mc_args,             \* what MCMC(...) was called with
    algorithm,           \* MCMC.algorithm after init_mcmc
    seed,                \* MCMC.seed after init_mcmc
    ensemble_size,       \* MCMC.ensemble_size, 0 while the attribute is unset
    pdf_target_type,     \* MCMC.pdf_target_type: "unset" | "None" | "marginal_pdf"
    \* ---- MCMC: the locals of run_mcmc ----
    mc_pc,               \* "new" | "ready" | "loop" | "done" | "raised"
    branch,              \* the branch of run_mcmc taken: "MH" | "MMH_marginal" | "MMH_joint" | "Stretch"
    mc_samples,          \* the array `samples` of raw chain states
    mc_i,                \* the loop index i
    mc_j,                \* the coordinate index j of the MMH loops
    candidate,           \* MMH: the list `candidate`
    current,             \* MMH: the list `current`
    log_p_current,       \* the cached log-density log_p_current
    list_log_p_current,  \* the list of cached log-densities
    n_accepts,           \* the acceptance counter
    n_proposals,         \* proposals put to an acceptance test so far
    stretch_last,        \* Stretch: the walker and complementary set of the last step
    accept_ratio,        \* the returned ratio as [num, den]
    mc_output,           \* the returned samples
    \* ---- IS ----
    is_args,             \* what IS(...) was called with
    is_pc,               \* "new" | "done" | "raised"
    is_error,            \* the exception that ended the construction
    is_samples,          \* IS.samples
    is_weights,          \* IS.weights
    \* ---- Krig ----
    krig_args,           \* what Krig(...) was called with
    krig_pc,             \* "new" | "guard" | "optimize" | "fitted" | "raised"
    krig_error,          \* the exception that ended the construction, LinAlgError with its line
    krig_samples,        \* Krig.samples
    corr_model_params,   \* Krig.corr_model_params
    krig_evals,          \* the calls of log_likelihood that returned: [p0, outcome]
    krig_design,         \* Krig.beta, gamma, sig, F_dash, C_inv, G
    krig_corr,           \* the last call of Krig.corr_model outside the fit
    krig_answers,        \* what the queries made so far returned
    krig_check,          \* self.interpolate(samples), computed at line 360
    \* ---- Strata read from a file ----
    input_file,          \* the rows of numbers in the file, in millionths
    st_pc,               \* "new" | "done" | "exit" | "raised"
    st_error,            \* the message of sys.exit or the exception raised
    st_origins,          \* Strata.origins
    st_widths,           \* Strata.widths
    st_weights,          \* Strata.weights
    \* ---- random numbers ----
    rng_used             \* the pseudo-random sources drawn from so far

rssVars == <<n_strata, dist_params, option, cut_type, nSamples, origins, widths,
             weights, samplesU01, samples, rss_pc, last, n_iter, n_halved,
             min_train_size, ff, ind_train, ind_update, x_design>>

mcVars == <<mc_args, algorithm, seed, ensemble_size, pdf_target_type, mc_pc,
            branch, mc_samples, mc_i, mc_j, candidate, current, log_p_current,
            list_log_p_current, n_accepts, n_proposals, stretch_last,
            accept_ratio, mc_output>>

isVars == <<is_args, is_pc, is_error, is_samples, is_weights>>

krigVars == <<krig_args, krig_pc, krig_error, krig_samples, corr_model_params,
              krig_evals, krig_design, krig_corr, krig_answers, krig_check>>

strataVars == <<input_file, st_pc, st_error, st_origins, st_widths, st_weights>>

vars == <<rssVars, mcVars, isVars, krigVars, strataVars, rng_used>>

-----------------------------------------------------------------------------
(* The pseudo-random sources of SampleMethods.py: numpy's global generator  *)
(* np.random and the generator of Python's module random (line 23).        *)

\* One iteration of RSS draws with np.random.randint (698, 706) and
\* np.random.uniform (727).
RssSources == {"np.random"}

\* One MH or MMH proposal and its acceptance test draw with np.random.
MhSources == {"np.random"}

\* One Stretch step draws the complementary walker and the stretch factor
\* with random.choice and random.random (1074-1075) and the acceptance test
\* with np.random.random (1082).
StretchSources == {"random", "np.random"}

-----------------------------------------------------------------------------
(* Strata: the full-factorial construction.                                *)

dimension == Len(n_strata)
Axes == 1..dimension

\* Grid units along axis a of the unit hypercube.
GridLen(a) == n_strata[a] * Scale

\* Volume of the unit hypercube in grid cells: the model's "1".
One == SeqProd([a \in Axes |-> GridLen(a)])

\* level_repeat when the loop of fullfact reaches factor a: the product of
\* the levels before it.
LevelRepeat(levels, a) == SeqProd(SubSeq(levels, 1, a - 1))

\* fullfact(levels): row k (1-based), column a holds the level index
\* lvl * range_repeat lays out: each level repeated level_repeat times, the
\* block repeated range_repeat times.
fullfact(levels) ==
    [k \in 1..SeqProd(levels) |->
        [a \in 1..Len(levels) |->
            ((k - 1) \div LevelRepeat(levels, a)) % levels[a]]]

\* Strata.__init__ with n_strata: origins = fullfact / n_strata,
\* widths = 1 / n_strata, in grid units.
StrataOrigins(levels) ==
    [k \in 1..SeqProd(levels) |->
        [a \in 1..Len(levels) |-> fullfact(levels)[k][a] * Scale]]

StrataWidths(levels) ==
    [k \in 1..SeqProd(levels) |-> [a \in 1..Len(levels) |-> Scale]]

\* weights = np.prod(widths, axis=1)
StrataWeights(ws) == [k \in DOMAIN ws |-> SeqProd(ws[k])]

-----------------------------------------------------------------------------
(* RSS.run_rss                                                             *)

\* The marginal inverse cdf, for the Uniform(loc, scale) family: in the
\* physical scale of grid units, loc * GridLen + scale * u.
Icdf(u, a) == dist_params[a][1] * GridLen(a) + dist_params[a][2] * u

\* Every stratum is a candidate, whatever its weight.
AnyStrata == DOMAIN weights

\* np.argwhere(weights == np.amax(weights)): the strata of maximum weight.
MaxWeightStrata == {k \in DOMAIN weights : weights[k] = SeqMax(weights)}

\* np.argwhere(row == np.amax(row)): the axes of maximum width of a stratum.
WidestAxes(b) == {a \in Axes : widths[b][a] = SeqMax(widths[b])}

\* The strata `bin2break` may be.  Refined: a stratum of maximum weight,
\* ties broken by np.random.randint.  Gradient: np.argmax of the variance
\* estimate s, which the surrogate's gradient at the centroids decides; the
\* surrogate is outside this model, so any stratum may maximise s.
Bin2BreakChoices ==
    IF option = "Refined" THEN MaxWeightStrata ELSE DOMAIN weights

\* The index arrays `dir2break` may be, as sequences of axes.
\*   cut_type 0 after a Refined choice: bin2break is a one-element index
\*     array, widths[bin2break, :] has one row, cut_dir_temp[0] is that row:
\*     a widest axis, ties broken by np.random.randint.
\*   cut_type 0 after a Gradient choice: bin2break is a scalar, cut_dir_temp
\*     is the row itself and cut_dir_temp[0] its first entry, a scalar that
\*     equals its own maximum.  np.argwhere of a true scalar is [[0]] in
\*     numpy before 1.18 (the first axis is cut, whatever the widths) and has
\*     shape (1, 0) since (the index array is empty and nothing is cut).
\*   cut_type 1: among the widest axes the one of largest absolute gradient,
\*     which the surrogate decides: any widest axis.
Dir2BreakChoices(b, ct) ==
    CASE ct = "0" /\ option = "Refined" -> {<<a>> : a \in WidestAxes(b)}
      [] ct = "0" /\ option = "Gradient" -> {<<1>>, <<>>}
      [] ct = "1" -> {<<a>> : a \in WidestAxes(b)}
      [] OTHER -> {}

\* widths[bin2break, dir2break] / 2 written back into the row.
HalveAlong(row, dir) ==
    [a \in DOMAIN row |-> IF a \in Range(dir) THEN row[a] \div 2 ELSE row[a]]

\* row[dir2break] = row[dir2break] + step[dir2break]
ShiftAlong(row, dir, step) ==
    [a \in DOMAIN row |-> IF a \in Range(dir) THEN row[a] + step[a] ELSE row[a]]

\* A comparison that sends a sample lying on the cut to the lower half.
SampleInLowerHalfInclusive(u, o, w, dir) ==
    /\ dir # <<>>
    /\ \A a \in Range(dir) : u[a] <= o[a] + w[a]

\* The truth value of
\*   samplesU01[bin2break, dir2break] < origins[-1, dir2break] + widths[bin2break, dir2break]
\* where w is the width already halved.  The comparison over an empty index
\* array is an empty array, whose truth value is False where it does not
\* raise.
SampleInLowerHalf(u, o, w, dir) ==
    /\ dir # <<>>
    /\ \A a \in Range(dir) : u[a] < o[a] + w[a]

\* A weight that is not halved with its stratum.
HalveWeightKept(w) == w

\* weights[bin2break] / 2
HalveWeight(w) == w \div 2

\* A loop that runs one iteration too many.
LoopContinuesInclusive == Len(samplesU01) <= nSamples

\* range(initial_s, self.nSamples) has an iteration left.
LoopContinues == Len(samplesU01) < nSamples

\* The number of strata, and of samples, of the initial design.
initial_s == SeqProd(n_strata)

\* The points np.random.uniform(origin, origin + width) is drawn from here:
\* per axis the first and the last grid point of the half-open range
\* [origin, origin + width).
DrawChoices(o, w) ==
    {u \in [DOMAIN o -> 0..(SeqMax(o) + SeqMax(w))] :
        \A a \in DOMAIN o : u[a] \in {o[a], o[a] + w[a] - 1}}

NoSplit == [bin |-> 0, dir |-> <<>>, origin |-> <<>>, width |-> <<>>,
            weight |-> 0, sample |-> <<>>]

\* The designs RSS is started from: a full-factorial Strata and one sample
\* per stratum, sample k inside stratum k.
Designs == {<<1>>, <<3>>, <<4>>, <<1, 2>>, <<2, 2>>}

\* The designs of the runs that are followed through the local update.
LocalDesigns == {<<3>>}

Options == {"Refined", "Gradient"}

\* The values of min_train_size: left at None, or an integer; the last one
\* keeps the surrogate update global to the end of the run.  Refined mode
\* never reads it.
MinTrainSizes(opt, n) == IF opt = "Gradient" THEN {<<>>, <<3>>, <<n>>} ELSE {<<>>}

\* Grid units of axis a brought to the common unit 1 / One of the unit cube.
Common(a) == One \div GridLen(a)

\* max_dim = np.amax(widths), in common units.
max_dim == SeqMax([k \in DOMAIN widths |->
                     SeqMax([a \in Axes |-> widths[k][a] * Common(a)])])

Max(a, b) == IF a > b THEN a ELSE b

\* Row k of x_ind for the new sample `new` and window factor f:
\*   np.maximum(new - f * max_dim, 0) <= p  &  np.maximum(new + f * max_dim, 1) >= p
\* in every coordinate.
InWindow(p, new, f) ==
    \A a \in Axes :
        /\ Max(new[a] * Common(a) - f * max_dim, 0) <= p[a] * Common(a)
        /\ Max(new[a] * Common(a) + f * max_dim, One) >= p[a] * Common(a)

\* The indices k in range(i) the loop over x_ind appends, i the index of the
\* new sample (the last row of samplesU01).
Window(f) ==
    {k \in 0..(Len(samplesU01) - 2) :
        InWindow(samplesU01[k + 1], samplesU01[Len(samplesU01)], f)}

\* A local update entered as soon as min_train_size samples exist.
LocalUpdateInclusive(n) == n >= min_train_size[1]

\* np.size(samplesU01, 0) > self.min_train_size, for n rows.
LocalUpdate(n) == n > min_train_size[1]

\* What follows the new sample of an iteration: Refined mode goes on to the
\* next iteration; Gradient mode compares the number of samples with
\* min_train_size, which raises TypeError for None, and updates the
\* surrogate globally (the surrogate is outside this model) or locally.
AfterSample(n) ==
    CASE option # "Gradient" -> "run"
      [] min_train_size = <<>> -> "raised"
      [] LocalUpdate(n) -> "train"
      [] OTHER -> "run"
CutTypes == {"None", "0", "1"}
DistParams == {<<1, 2>>}

InitRSS ==
    /\ n_strata \in Designs
    /\ \E p \in DistParams : dist_params = [a \in 1..Len(n_strata) |-> p]
    /\ option \in Options
    /\ cut_type \in CutTypes
    /\ origins = StrataOrigins(n_strata)
    /\ widths = StrataWidths(n_strata)
    /\ weights = StrataWeights(widths)
    /\ \E off \in DrawChoices([a \in 1..Len(n_strata) |-> 0],
                              [a \in 1..Len(n_strata) |-> Scale]) :
          samplesU01 = [k \in DOMAIN origins |->
                           [a \in 1..Len(n_strata) |-> origins[k][a] + off[a]]]
    /\ samples = [k \in DOMAIN samplesU01 |->
                     [a \in 1..Len(n_strata) |->
                         dist_params[a][1] * n_strata[a] * Scale
                           + dist_params[a][2] * samplesU01[k][a]]]
    /\ nSamples \in Len(origins)..(Len(origins) + MaxNew)
    /\ rss_pc = "run"
    /\ last = NoSplit
    /\ n_iter = 0
    /\ n_halved = 0
    /\ min_train_size \in MinTrainSizes(option, nSamples)
    /\ ff = 0
    /\ ind_train = {}
    /\ ind_update = {}
    /\ x_design = [samples |-> samples, samplesU01 |-> samplesU01,
                   origins |-> origins, widths |-> widths, weights |-> weights]
    \* no MCMC object exists
    /\ mc_args = <<>>
    /\ algorithm = "None"
    /\ seed = <<>>
    /\ ensemble_size = 0
    /\ pdf_target_type = "unset"
    /\ mc_pc = "idle"
    /\ branch = "none"
    /\ mc_samples = <<>>
    /\ mc_i = 0
    /\ mc_j = 0
    /\ candidate = <<>>
    /\ current = <<>>
    /\ log_p_current = 0
    /\ list_log_p_current = <<>>
    /\ n_accepts = 0
    /\ n_proposals = 0
    /\ stretch_last = <<>>
    /\ accept_ratio = <<>>
    /\ mc_output = <<>>
    \* no IS object exists
    /\ is_args = <<>>
    /\ is_pc = "idle"
    /\ is_error = "none"
    /\ is_samples = <<>>
    /\ is_weights = <<>>
    \* no Krig object exists
    /\ krig_args = <<>>
    /\ krig_pc = "idle"
    /\ krig_error = "none"
    /\ krig_samples = <<>>
    /\ corr_model_params = <<>>
    /\ krig_evals = {}
    /\ krig_design = <<>>
    /\ krig_corr = <<>>
    /\ krig_answers = {}
    /\ krig_check = <<>>
    /\ rng_used = {}
    \* no Strata object is being read from a file
    /\ input_file = <<>>
    /\ st_pc = "idle"
    /\ st_error = "none"
    /\ st_origins = <<>>
    /\ st_widths = <<>>
    /\ st_weights = <<>>

\* The runs in which the local update is entered: Gradient mode with an
\* integer min_train_size, from a design with strata enough along an axis
\* for a window of factor 2 to leave points out.
InitRSSLive ==
    /\ n_strata \in LocalDesigns
    /\ \E p \in DistParams : dist_params = [a \in 1..Len(n_strata) |-> p]
    /\ option = "Gradient"
    /\ cut_type \in {"0", "1"}
    /\ origins = StrataOrigins(n_strata)
    /\ widths = StrataWidths(n_strata)
    /\ weights = StrataWeights(widths)
    /\ \E off \in DrawChoices([a \in 1..Len(n_strata) |-> 0],
                              [a \in 1..Len(n_strata) |-> Scale]) :
          samplesU01 = [k \in DOMAIN origins |->
                           [a \in 1..Len(n_strata) |-> origins[k][a] + off[a]]]
    /\ samples = [k \in DOMAIN samplesU01 |->
                     [a \in 1..Len(n_strata) |->
                         dist_params[a][1] * n_strata[a] * Scale
                           + dist_params[a][2] * samplesU01[k][a]]]
    /\ nSamples \in Len(origins)..(Len(origins) + MaxNew)
    /\ rss_pc = "run"
    /\ last = NoSplit
    /\ n_iter = 0
    /\ n_halved = 0
    /\ min_train_size \in MinTrainSizes(option, nSamples) \ {<<>>}
    /\ ff = 0
    /\ ind_train = {}
    /\ ind_update = {}
    /\ x_design = [samples |-> samples, samplesU01 |-> samplesU01,
                   origins |-> origins, widths |-> widths, weights |-> weights]
    \* no MCMC object exists
    /\ mc_args = <<>>
    /\ algorithm = "None"
    /\ seed = <<>>
    /\ ensemble_size = 0
    /\ pdf_target_type = "unset"
    /\ mc_pc = "idle"
    /\ branch = "none"
    /\ mc_samples = <<>>
    /\ mc_i = 0
    /\ mc_j = 0
    /\ candidate = <<>>
    /\ current = <<>>
    /\ log_p_current = 0
    /\ list_log_p_current = <<>>
    /\ n_accepts = 0
    /\ n_proposals = 0
    /\ stretch_last = <<>>
    /\ accept_ratio = <<>>
    /\ mc_output = <<>>
    \* no IS object exists
    /\ is_args = <<>>
    /\ is_pc = "idle"
    /\ is_error = "none"
    /\ is_samples = <<>>
    /\ is_weights = <<>>
    \* no Krig object exists
    /\ krig_args = <<>>
    /\ krig_pc = "idle"
    /\ krig_error = "none"
    /\ krig_samples = <<>>
    /\ corr_model_params = <<>>
    /\ krig_evals = {}
    /\ krig_design = <<>>
    /\ krig_corr = <<>>
    /\ krig_answers = {}
    /\ krig_check = <<>>
    /\ rng_used = {}
    \* no Strata object is being read from a file
    /\ input_file = <<>>
    /\ st_pc = "idle"
    /\ st_error = "none"
    /\ st_origins = <<>>
    /\ st_widths = <<>>
    /\ st_weights = <<>>

\* One iteration of `for i in range(initial_s, self.nSamples)` that runs to
\* its end: choose the stratum and the axis, divide the stratum, draw the new
\* sample in stratum i and map it to physical space.
RssIterate ==
    /\ rss_pc = "run"
    /\ LoopContinues
    /\ \E bin2break \in Bin2BreakChoices :
       LET ct == IF option = "Refined" THEN "0" ELSE cut_type IN
       \E dir2break \in Dir2BreakChoices(bin2break, ct) :
       LET halved    == HalveAlong(widths[bin2break], dir2break)
           widths1   == Append([widths EXCEPT ![bin2break] = halved], halved)
           appended  == Append(origins, origins[bin2break])
           lower     == SampleInLowerHalf(samplesU01[bin2break],
                                          origins[bin2break], halved, dir2break)
           i         == Len(appended)
           origins1  == IF lower
                        THEN [appended EXCEPT ![i] =
                                 ShiftAlong(appended[i], dir2break, halved)]
                        ELSE [appended EXCEPT ![bin2break] =
                                 ShiftAlong(appended[bin2break], dir2break, halved)]
           weights1  == Append([weights EXCEPT ![bin2break] = HalveWeight(weights[bin2break])],
                               HalveWeight(weights[bin2break]))
       IN
       \E new \in DrawChoices(origins1[i], widths1[i]) :
          /\ widths' = widths1
          /\ origins' = origins1
          /\ weights' = weights1
          /\ samplesU01' = Append(samplesU01, new)
          /\ samples' = Append(samples, [a \in Axes |-> Icdf(new[a], a)])
          /\ cut_type' = ct
          /\ last' = [bin |-> bin2break, dir |-> dir2break,
                      origin |-> origins[bin2break], width |-> widths[bin2break],
                      weight |-> weights[bin2break],
                      sample |-> samplesU01[bin2break]]
          /\ n_iter' = n_iter + 1
          /\ n_halved' = IF dir2break # <<>> THEN n_halved + 1 ELSE n_halved
          /\ x_design' = IF n_iter = 0
                          THEN [x_design EXCEPT
                                  !.widths = [widths EXCEPT ![bin2break] = halved],
                                  !.weights = [weights EXCEPT ![bin2break] =
                                                  HalveWeight(weights[bin2break])]]
                          ELSE x_design
    /\ rss_pc' = AfterSample(Len(samplesU01) + 1)
    /\ ff' = IF AfterSample(Len(samplesU01) + 1) = "train" THEN 2 ELSE ff
    /\ ind_train' = IF AfterSample(Len(samplesU01) + 1) = "train" THEN {} ELSE ind_train
    /\ UNCHANGED <<n_strata, dist_params, option, nSamples, min_train_size, ind_update>>
    /\ UNCHANGED <<mcVars, isVars, krigVars>>
    /\ rng_used' = rng_used \cup RssSources
    /\ UNCHANGED strataVars

\* An iteration that raises.  In Gradient mode with cut_type left at None
\* neither branch assigns dir2break and its first use raises
\* UnboundLocalError; with cut_type 0 and an empty index array, the truth
\* value of the empty comparison raises in numpy from 2.2 on.  Nothing has
\* been appended to the design by then.
RssRaise ==
    /\ rss_pc = "run"
    /\ LoopContinues
    /\ option = "Gradient"
    /\ cut_type \in {"None", "0"}
    /\ rss_pc' = "raised"
    /\ UNCHANGED <<n_strata, dist_params, option, cut_type, nSamples, origins,
                   widths, weights, samplesU01, samples, last, n_iter, n_halved,
                   min_train_size, ff, ind_train, ind_update, x_design>>
    /\ UNCHANGED <<mcVars, isVars, krigVars>>
    /\ UNCHANGED rng_used
    /\ UNCHANGED strataVars

\* The loop is exhausted: run_rss returns the design.
RssReturn ==
    /\ rss_pc = "run"
    /\ ~LoopContinues
    /\ rss_pc' = "done"
    /\ x_design' = [x_design EXCEPT !.origins = origins, !.widths = widths,
                                    !.weights = weights]
    /\ UNCHANGED <<n_strata, dist_params, option, cut_type, nSamples, origins,
                   widths, weights, samplesU01, samples, last, n_iter, n_halved,
                   min_train_size, ff, ind_train, ind_update>>
    /\ UNCHANGED <<mcVars, isVars, krigVars>>
    /\ UNCHANGED rng_used
    /\ UNCHANGED strataVars

\* One pass of `while np.size(ind_train) < self.min_train_size`: the window
\* of factor ff is laid around the new sample, the earlier points inside it
\* are collected and ff grows by one.
RssTrainWindow ==
    /\ rss_pc = "train"
    /\ Cardinality(ind_train) < min_train_size[1]
    /\ ff < MaxFf
    /\ ind_train' = Window(ff)
    /\ ff' = ff + 1
    /\ UNCHANGED <<n_strata, dist_params, option, cut_type, nSamples, origins,
                   widths, weights, samplesU01, samples, rss_pc, last, n_iter,
                   n_halved, min_train_size, ind_update, x_design>>
    /\ UNCHANGED <<mcVars, isVars, krigVars>>
    /\ UNCHANGED rng_used
    /\ UNCHANGED strataVars

\* The training loop is left; ff = 2 and ind_update = [] start the loop for
\* the points whose gradients will be updated.
RssTrainExit ==
    /\ rss_pc = "train"
    /\ ~(Cardinality(ind_train) < min_train_size[1])
    /\ rss_pc' = "update"
    /\ ff' = 2
    /\ ind_update' = {}
    /\ UNCHANGED <<n_strata, dist_params, option, cut_type, nSamples, origins,
                   widths, weights, samplesU01, samples, last, n_iter, n_halved,
                   min_train_size, ind_train, x_design>>
    /\ UNCHANGED <<mcVars, isVars, krigVars>>
    /\ UNCHANGED rng_used
    /\ UNCHANGED strataVars

\* One pass of `while np.size(ind_update) < self.min_train_size/2`.
RssUpdateWindow ==
    /\ rss_pc = "update"
    /\ 2 * Cardinality(ind_update) < min_train_size[1]
    /\ ff < MaxFf
    /\ ind_update' = Window(ff)
    /\ ff' = ff + 1
    /\ UNCHANGED <<n_strata, dist_params, option, cut_type, nSamples, origins,
                   widths, weights, samplesU01, samples, rss_pc, last, n_iter,
                   n_halved, min_train_size, ind_train, x_design>>
    /\ UNCHANGED <<mcVars, isVars, krigVars>>
    /\ UNCHANGED rng_used
    /\ UNCHANGED strataVars

\* The update loop is left; the surrogate is refitted on the training points
\* and the stored gradients of the strata in ind_update are replaced (the
\* surrogate is outside this model), and the iteration ends.
RssUpdateExit ==
    /\ rss_pc = "update"
    /\ ~(2 * Cardinality(ind_update) < min_train_size[1])
    /\ rss_pc' = "run"
    /\ UNCHANGED <<n_strata, dist_params, option, cut_type, nSamples, origins,
                   widths, weights, samplesU01, samples, last, n_iter, n_halved,
                   min_train_size, ff, ind_train, ind_update, x_design>>
    /\ UNCHANGED <<mcVars, isVars, krigVars>>
    /\ UNCHANGED rng_used
    /\ UNCHANGED strataVars

NextRSS ==
    \/ RssIterate
    \/ RssRaise
    \/ RssReturn
    \/ RssTrainWindow
    \/ RssTrainExit
    \/ RssUpdateWindow
    \/ RssUpdateExit

\* run_rss is sequential code: a step that can be taken is taken.
SpecRSSLive == InitRSSLive /\ [][NextRSS]_vars /\ WF_vars(NextRSS)

SpecRSS == InitRSS /\ [][NextRSS]_vars

-----------------------------------------------------------------------------
(* MCMC.__init__, MCMC.init_mcmc and MCMC.run_mcmc                         *)
(*                                                                         *)
(* Chain states are integer vectors.  The target is the unnormalised       *)
(* density whose marginal on every axis is 2^(4 - v*v); log-densities are  *)
(* counted in units of log 2, so that they are integers.  The model covers *)
(* calls that pass dimension, nsamples, jump and nburn, a recognised       *)
(* algorithm name (or none) and valid proposal types and scales.           *)

\* Largest number of rows of the chain array, nsamples * jump + nburn.
MaxChain == 5

mc_dimension == mc_args.dimension

\* Rows of the array `samples`.
ChainLen == mc_args.nsamples * mc_args.jump + mc_args.nburn

\* np.zeros(d).
Zeros(d) == [a \in 1..d |-> 0]

\* np.zeros([rows, d]).
ZeroRows(rows, d) == [k \in 1..rows |-> Zeros(d)]

\* A marginal of log_pdf_target, evaluated at one coordinate.
LogMarginal(v) == 4 - v * v

\* The same marginal of pdf_target; compute_log_pdf maps it to LogMarginal.
PdfMarginal(v) == Pow2(4 - v * v)

\* The joint log_pdf_target, evaluated at a chain state.
LogTarget(x) == SeqSum([a \in DOMAIN x |-> LogMarginal(x[a])])

\* The outcomes of np.log(np.random.random()) < log_p_accept: np.log of a
\* draw from [0, 1) is any value below 0.
AcceptChoices(log_p_accept) == IF log_p_accept >= 0 THEN {TRUE} ELSE {TRUE, FALSE}

\* The displacements the symmetric proposal draws.
ProposalSteps == {-1, 1}

\* Seeds a caller can pass: none, a vector, a vector of the wrong length,
\* and ensembles of two and of three points.
SeedArgs(d) ==
    { [given |-> FALSE, ndim |-> 0, array |-> <<>>],
      [given |-> TRUE, ndim |-> 1, array |-> [a \in 1..d |-> 1]],
      [given |-> TRUE, ndim |-> 1, array |-> [a \in 1..(d + 1) |-> 1]],
      [given |-> TRUE, ndim |-> 2, array |-> [k \in 1..2 |-> [a \in 1..d |-> 4 * (k - 1)]]],
      [given |-> TRUE, ndim |-> 2, array |-> [k \in 1..3 |-> [a \in 1..d |-> 4 * (k - 1)]]] }

\* The calls MCMC(...) of the model.  `interned` tells whether the caller's
\* algorithm string is the very object of the literal in SampleMethods.py,
\* which is what the `is` comparisons of the code test.
McCalls ==
    UNION { { [algorithm |-> alg, interned |-> lit, dimension |-> d, nsamples |-> n,
               jump |-> jmp, nburn |-> nb, seed |-> sd, target |-> tg] :
              sd \in SeedArgs(d) } :
            <<alg, lit, d, n, jmp, nb, tg>> \in
               {"None", "MH", "MMH", "Stretch"} \X BOOLEAN \X {1, 2, 3}
               \X (1..MaxChain) \X {0, 1, 2} \X {0, 1}
               \X {"callable", "log_list", "pdf_list"} }

InitMCMC ==
    /\ mc_args \in {c \in McCalls : /\ c.nsamples * c.jump + c.nburn <= MaxChain
                                    /\ c.algorithm = "None" => c.interned
                                    /\ c.dimension = 3 => c.algorithm \in {"MH", "Stretch"}}
    /\ algorithm = mc_args.algorithm
    /\ seed = mc_args.seed
    /\ ensemble_size = 0
    /\ pdf_target_type = "unset"
    /\ mc_pc = "new"
    /\ branch = "none"
    /\ mc_samples = <<>>
    /\ mc_i = 0
    /\ mc_j = 0
    /\ candidate = <<>>
    /\ current = <<>>
    /\ log_p_current = 0
    /\ list_log_p_current = <<>>
    /\ n_accepts = 0
    /\ n_proposals = 0
    /\ stretch_last = <<>>
    /\ accept_ratio = <<>>
    /\ mc_output = <<>>
    \* no RSS object exists
    /\ n_strata = <<1>>
    /\ dist_params = <<<<0, 1>>>>
    /\ option = "Refined"
    /\ cut_type = "None"
    /\ nSamples = 1
    /\ origins = <<<<0>>>>
    /\ widths = <<<<Scale>>>>
    /\ weights = <<Scale>>
    /\ samplesU01 = <<<<0>>>>
    /\ samples = <<<<0>>>>
    /\ rss_pc = "idle"
    /\ last = NoSplit
    /\ n_iter = 0
    /\ n_halved = 0
    /\ min_train_size = <<>>
    /\ ff = 0
    /\ ind_train = {}
    /\ ind_update = {}
    /\ x_design = <<>>
    \* no IS object exists
    /\ is_args = <<>>
    /\ is_pc = "idle"
    /\ is_error = "none"
    /\ is_samples = <<>>
    /\ is_weights = <<>>
    \* no Krig object exists
    /\ krig_args = <<>>
    /\ krig_pc = "idle"
    /\ krig_error = "none"
    /\ krig_samples = <<>>
    /\ corr_model_params = <<>>
    /\ krig_evals = {}
    /\ krig_design = <<>>
    /\ krig_corr = <<>>
    /\ krig_answers = {}
    /\ krig_check = <<>>
    /\ rng_used = {}
    \* no Strata object is being read from a file
    /\ input_file = <<>>
    /\ st_pc = "idle"
    /\ st_error = "none"
    /\ st_origins = <<>>
    /\ st_widths = <<>>
    /\ st_weights = <<>>

\* `alg is lit`: the strings are equal and are one object.
IsLiteral(alg, lit) == alg = lit /\ mc_args.interned

\* Row i of `samples`, i counted from 0 as the code does.
Row(i) == mc_samples[i + 1]

\* x with x[j] replaced, j counted from 0.
SetCoord(x, j, v) == [x EXCEPT ![j + 1] = v]

\* init_mcmc followed by lines 936-939 of __init__.
McConstruct ==
    /\ mc_pc = "new"
    /\ LET d == mc_dimension
           seed1 == IF mc_args.seed.given THEN mc_args.seed
                    ELSE [given |-> FALSE, ndim |-> 1, array |-> Zeros(d)]
           stretch == IsLiteral(mc_args.algorithm, "Stretch")
           alg1 == IF mc_args.algorithm = "None" THEN "MMH" ELSE mc_args.algorithm
           marginal == alg1 = "MMH" /\ mc_args.target \in {"log_list", "pdf_list"}
           raises == \/ mc_args.jump = 0
                     \/ ~stretch /\ Len(seed1.array) # d
                     \/ stretch /\ Len(seed1.array) < 3
                     \/ alg1 # "MMH" /\ mc_args.target # "callable"
       IN  IF raises
           THEN /\ mc_pc' = "raised"
                /\ UNCHANGED <<algorithm, seed, ensemble_size, pdf_target_type>>
           ELSE /\ mc_pc' = "ready"
                /\ algorithm' = alg1
                /\ seed' = seed1
                /\ ensemble_size' = IF IsLiteral(alg1, "Stretch") THEN Len(seed1.array) ELSE 0
                /\ pdf_target_type' = IF IsLiteral(alg1, "MMH") THEN "None"
                                      ELSE IF marginal THEN "marginal_pdf" ELSE "unset"
    /\ UNCHANGED <<mc_args, branch, mc_samples, mc_i, mc_j, candidate, current,
                   log_p_current, list_log_p_current, n_accepts, n_proposals,
                   stretch_last, accept_ratio, mc_output>>
    /\ UNCHANGED <<rssVars, isVars, krigVars>>
    /\ UNCHANGED rng_used
    /\ UNCHANGED strataVars

\* The rows that `samples[0:ensemble_size, :] = self.seed` writes: a vector
\* is broadcast to every row.
SeedRows == IF seed.ndim = 1 THEN [k \in 1..ensemble_size |-> seed.array] ELSE seed.array

\* run_mcmc up to its loop: the chain array, the seed and the first cached
\* log-densities.
McStart ==
    /\ mc_pc = "ready"
    /\ LET d == mc_dimension
           zeros == ZeroRows(ChainLen, d)
           raises ==
               CASE algorithm \in {"MH", "MMH"} /\ seed.ndim # 1 -> TRUE
                 [] algorithm = "MH" -> FALSE
                 [] algorithm = "MMH" ->
                       \/ pdf_target_type = "unset"
                       \/ pdf_target_type = "marginal_pdf" /\ mc_args.target = "log_list"
                 [] OTHER ->
                       \/ ensemble_size = 0
                       \/ seed.ndim = 1 /\ Len(seed.array) # d
                       \/ ChainLen < ensemble_size
       IN  IF raises
           THEN /\ mc_pc' = "raised"
                /\ UNCHANGED <<branch, mc_samples, mc_i, log_p_current, list_log_p_current>>
           ELSE /\ mc_pc' = "loop"
                /\ CASE algorithm = "MH" ->
                          /\ branch' = "MH"
                          /\ mc_samples' = [zeros EXCEPT ![1] = seed.array]
                          /\ mc_i' = 0
                          /\ log_p_current' = LogTarget(seed.array)
                          /\ UNCHANGED list_log_p_current
                     [] algorithm = "MMH" /\ pdf_target_type = "marginal_pdf" ->
                          /\ branch' = "MMH_marginal"
                          /\ mc_samples' = [zeros EXCEPT ![1] = seed.array]
                          /\ mc_i' = 0
                          /\ list_log_p_current' = [j \in 1..d |-> PdfMarginal(seed.array[j])]
                          /\ UNCHANGED log_p_current
                     [] algorithm = "MMH" /\ pdf_target_type # "marginal_pdf" ->
                          /\ branch' = "MMH_joint"
                          /\ mc_samples' = [zeros EXCEPT ![1] = seed.array]
                          /\ mc_i' = 0
                          /\ UNCHANGED <<log_p_current, list_log_p_current>>
                     [] OTHER ->
                          /\ branch' = "Stretch"
                          /\ mc_samples' = [k \in 1..ChainLen |->
                                              IF k <= ensemble_size THEN SeedRows[k] ELSE zeros[k]]
                          /\ mc_i' = ensemble_size - 1
                          /\ list_log_p_current' = [k \in 1..ensemble_size |-> LogTarget(SeedRows[k])]
                          /\ UNCHANGED log_p_current
    /\ UNCHANGED <<mc_args, algorithm, seed, ensemble_size, pdf_target_type, mc_j,
                   candidate, current, n_accepts, n_proposals, stretch_last,
                   accept_ratio, mc_output>>
    /\ UNCHANGED <<rssVars, isVars, krigVars>>
    /\ UNCHANGED rng_used
    /\ UNCHANGED strataVars

\* The cache takes the candidate's log-density whether or not it is accepted.
CacheAlways(accept, log_p_candidate, cached) == log_p_candidate

\* The cached log-density after an acceptance test: log_p_current in MH,
\* the entry appended to list_log_p_current in Stretch.
CacheAfter(accept, log_p_candidate, cached) ==
    IF accept THEN log_p_candidate ELSE cached

\* One iteration of the MH loop.
McStepMH ==
    /\ mc_pc = "loop"
    /\ branch = "MH"
    /\ mc_i < ChainLen - 1
    /\ \E step \in ProposalSteps :
         LET cand == [a \in 1..mc_dimension |-> Row(mc_i)[a] + step]
             log_p_candidate == LogTarget(cand)
             log_p_accept == log_p_candidate - log_p_current
         IN  \E accept \in AcceptChoices(log_p_accept) :
               /\ mc_samples' = [mc_samples EXCEPT ![mc_i + 2] = IF accept THEN cand ELSE Row(mc_i)]
               /\ log_p_current' = CacheAfter(accept, log_p_candidate, log_p_current)
               /\ n_accepts' = IF accept THEN n_accepts + 1 ELSE n_accepts
    /\ n_proposals' = n_proposals + 1
    /\ mc_i' = mc_i + 1
    /\ UNCHANGED <<mc_args, algorithm, seed, ensemble_size, pdf_target_type, mc_pc,
                   branch, mc_j, candidate, current, list_log_p_current,
                   stretch_last, accept_ratio, mc_output>>
    /\ UNCHANGED <<rssVars, isVars, krigVars>>
    /\ rng_used' = rng_used \cup MhSources
    /\ UNCHANGED strataVars

\* The rejected component is not restored: the candidate keeps the proposal.
WriteBackSkipped(cand, cur, j) == cand

\* candidate[j] = current[j] on rejection in the MMH loop over a joint target.
WriteBack(cand, cur, j) == SetCoord(cand, j, cur[j + 1])

\* One coordinate of one iteration of the MMH loop over marginal targets.
McStepMMHMarginal ==
    /\ mc_pc = "loop"
    /\ branch = "MMH_marginal"
    /\ mc_i < ChainLen - 1
    /\ \E step \in ProposalSteps :
         LET cand == Row(mc_i)[mc_j + 1] + step
             log_p_candidate == LogMarginal(cand)
             log_p_accept == log_p_candidate - list_log_p_current[mc_j + 1]
         IN  \E accept \in AcceptChoices(log_p_accept) :
               /\ mc_samples' = [mc_samples EXCEPT ![mc_i + 2] =
                                   SetCoord(@, mc_j, IF accept THEN cand ELSE Row(mc_i)[mc_j + 1])]
               /\ list_log_p_current' = IF accept
                                        THEN [list_log_p_current EXCEPT ![mc_j + 1] = log_p_candidate]
                                        ELSE list_log_p_current
               /\ n_accepts' = IF accept THEN n_accepts + 1 ELSE n_accepts
    /\ n_proposals' = n_proposals + 1
    /\ mc_j' = IF mc_j + 1 = mc_dimension THEN 0 ELSE mc_j + 1
    /\ mc_i' = IF mc_j + 1 = mc_dimension THEN mc_i + 1 ELSE mc_i
    /\ UNCHANGED <<mc_args, algorithm, seed, ensemble_size, pdf_target_type, mc_pc,
                   branch, candidate, current, log_p_current, stretch_last,
                   accept_ratio, mc_output>>
    /\ UNCHANGED <<rssVars, isVars, krigVars>>
    /\ rng_used' = rng_used \cup MhSources
    /\ UNCHANGED strataVars

\* The first call log_pdf_(samples[i, :], ...) of the joint MMH loop when
\* log_pdf_target is a list: a list is not callable.
McCallListTarget ==
    /\ mc_pc = "loop"
    /\ branch = "MMH_joint"
    /\ mc_args.target # "callable"
    /\ mc_i < ChainLen - 1
    /\ mc_pc' = "raised"
    /\ UNCHANGED <<mc_args, algorithm, seed, ensemble_size, pdf_target_type, branch,
                   mc_samples, mc_i, mc_j, candidate, current, log_p_current,
                   list_log_p_current, n_accepts, n_proposals, stretch_last,
                   accept_ratio, mc_output>>
    /\ UNCHANGED <<rssVars, isVars, krigVars>>
    /\ UNCHANGED rng_used
    /\ UNCHANGED strataVars

\* One coordinate of one iteration of the MMH loop over a joint target.  At
\* the first coordinate the iteration first copies samples[i, :] into
\* candidate and current and evaluates log_p_current there; after the last
\* coordinate it writes current to samples[i + 1, :].
McStepMMHJoint ==
    /\ mc_pc = "loop"
    /\ branch = "MMH_joint"
    /\ mc_args.target = "callable"
    /\ mc_i < ChainLen - 1
    /\ \E step \in ProposalSteps :
         LET candidate0 == IF mc_j = 0 THEN Row(mc_i) ELSE candidate
             current0 == IF mc_j = 0 THEN Row(mc_i) ELSE current
             log_p_current0 == IF mc_j = 0 THEN LogTarget(Row(mc_i)) ELSE log_p_current
             candidate1 == SetCoord(candidate0, mc_j, Row(mc_i)[mc_j + 1] + step)
             log_p_candidate == LogTarget(candidate1)
             log_p_accept == log_p_candidate - log_p_current0
         IN  \E accept \in AcceptChoices(log_p_accept) :
               LET current1 == IF accept THEN SetCoord(current0, mc_j, candidate1[mc_j + 1])
                               ELSE current0
               IN  /\ current' = current1
                   /\ candidate' = IF accept THEN candidate1
                                   ELSE WriteBack(candidate1, current0, mc_j)
                   /\ log_p_current' = IF accept THEN log_p_candidate ELSE log_p_current0
                   /\ n_accepts' = IF accept THEN n_accepts + 1 ELSE n_accepts
                   /\ mc_samples' = IF mc_j + 1 = mc_dimension
                                    THEN [mc_samples EXCEPT ![mc_i + 2] = current1]
                                    ELSE mc_samples
    /\ n_proposals' = n_proposals + 1
    /\ mc_j' = IF mc_j + 1 = mc_dimension THEN 0 ELSE mc_j + 1
    /\ mc_i' = IF mc_j + 1 = mc_dimension THEN mc_i + 1 ELSE mc_i
    /\ UNCHANGED <<mc_args, algorithm, seed, ensemble_size, pdf_target_type, mc_pc,
                   branch, list_log_p_current, stretch_last, accept_ratio, mc_output>>
    /\ UNCHANGED <<rssVars, isVars, krigVars>>
    /\ rng_used' = rng_used \cup MhSources
    /\ UNCHANGED strataVars

\* The stretch factors s the model draws: 1, and 1/2 (given as the divisor)
\* where the halved displacement is a vector of integers.
StretchDivisors(x, s0) ==
    {1} \cup (IF \A a \in DOMAIN x : (x[a] - s0[a]) % 2 = 0 THEN {2} ELSE {})

\* The rows of samples[i - ensemble_size + 2 : i + 1, :], counted from 0.
ComplementaryWithWalker(i) == (i - ensemble_size + 1)..i
ComplementaryEnsemble(i) == (i - ensemble_size + 2)..i

\* One iteration of the Stretch loop.
McStepStretch ==
    /\ mc_pc = "loop"
    /\ branch = "Stretch"
    /\ mc_i < mc_args.nsamples * mc_args.jump - 1
    /\ LET walker == mc_i - ensemble_size + 1
       IN  \E c \in ComplementaryEnsemble(mc_i) :
           \E div \in StretchDivisors(Row(walker), Row(c)) :
             LET s0 == Row(c)
                 cand == [a \in 1..mc_dimension |-> s0[a] + (Row(walker)[a] - s0[a]) \div div]
                 log_p_candidate == LogTarget(cand)
                 log_p_walker == list_log_p_current[walker + 1]
                 log_p_accept == (mc_dimension - 1) * (1 - div) + log_p_candidate - log_p_walker
             IN  \E accept \in AcceptChoices(log_p_accept) :
                   /\ mc_samples' = [mc_samples EXCEPT ![mc_i + 2] =
                                       IF accept THEN cand ELSE Row(walker)]
                   /\ list_log_p_current' = Append(list_log_p_current,
                                       CacheAfter(accept, log_p_candidate, log_p_walker))
                   /\ n_accepts' = IF accept THEN n_accepts + 1 ELSE n_accepts
                   /\ stretch_last' = [walker |-> walker,
                                       complementary |-> ComplementaryEnsemble(mc_i),
                                       s0 |-> c]
    /\ n_proposals' = n_proposals + 1
    /\ mc_i' = mc_i + 1
    /\ UNCHANGED <<mc_args, algorithm, seed, ensemble_size, pdf_target_type, mc_pc,
                   branch, mc_j, candidate, current, log_p_current, accept_ratio,
                   mc_output>>
    /\ UNCHANGED <<rssVars, isVars, krigVars>>
    /\ rng_used' = rng_used \cup StretchSources
    /\ UNCHANGED strataVars

Min(a, b) == IF a < b THEN a ELSE b

\* s[start:stop:step] for 0 <= start, 0 <= stop and 0 < step.
PySlice(s, start, stop, step) ==
    LET hi == Min(stop, Len(s))
        n == IF hi > start THEN (hi - start + step - 1) \div step ELSE 0
    IN  [k \in 1..n |-> s[start + (k - 1) * step + 1]]

\* What MH and MMH return: samples[nburn : nsamples * jump + nburn : jump].
ThinnedFromZero ==
    PySlice(mc_samples, 0, mc_args.nsamples * mc_args.jump + mc_args.nburn, mc_args.jump)
Thinned ==
    PySlice(mc_samples, mc_args.nburn, mc_args.nsamples * mc_args.jump + mc_args.nburn,
            mc_args.jump)

\* The loop that fills `output` for Stretch, from its index i and offset j
\* on.  An assignment output[j:j + M, :] = samples[i:i + M, :] needs as many
\* rows on the right as on the left, or one row, which is broadcast.
RECURSIVE StretchOutput(_, _, _)
StretchOutput(out, i, j) ==
    IF i >= Len(mc_samples) THEN [ok |-> TRUE, output |-> out]
    ELSE LET lhs == Min(j + ensemble_size, Len(out)) - Min(j, Len(out))
             rhs == Min(i + ensemble_size, Len(mc_samples)) - i
         IN  IF lhs # rhs /\ rhs # 1 THEN [ok |-> FALSE, output |-> out]
             ELSE StretchOutput(
                    [k \in DOMAIN out |->
                       IF j < k /\ k <= j + lhs
                       THEN mc_samples[i + (IF rhs = 1 THEN 1 ELSE k - j)]
                       ELSE out[k]],
                    i + mc_args.jump * ensemble_size, j + ensemble_size)

\* The end of run_mcmc: the acceptance ratio and the returned samples.
McFinish ==
    /\ mc_pc = "loop"
    /\ \/ branch \in {"MH", "MMH_marginal", "MMH_joint"} /\ mc_i >= ChainLen - 1
       \/ branch = "Stretch" /\ mc_i >= mc_args.nsamples * mc_args.jump - 1
    /\ LET den == IF branch = "Stretch"
                  THEN mc_args.nsamples * mc_args.jump - ensemble_size
                  ELSE mc_args.nsamples * mc_args.jump - 1 + mc_args.nburn
           sliced == IsLiteral(algorithm, "MMH") \/ IsLiteral(algorithm, "MH")
           filled == StretchOutput(ZeroRows(mc_args.nsamples, mc_dimension),
                                   mc_args.jump * ensemble_size - ensemble_size, 0)
       IN  IF \/ den = 0
              \/ ~sliced /\ ensemble_size = 0
              \/ ~sliced /\ ~filled.ok
           THEN /\ mc_pc' = "raised"
                /\ UNCHANGED <<accept_ratio, mc_output>>
           ELSE /\ mc_pc' = "done"
                /\ accept_ratio' = [num |-> n_accepts, den |-> den]
                /\ mc_output' = IF sliced THEN Thinned ELSE filled.output
    /\ UNCHANGED <<mc_args, algorithm, seed, ensemble_size, pdf_target_type, branch,
                   mc_samples, mc_i, mc_j, candidate, current, log_p_current,
                   list_log_p_current, n_accepts, n_proposals, stretch_last>>
    /\ UNCHANGED <<rssVars, isVars, krigVars>>
    /\ UNCHANGED rng_used
    /\ UNCHANGED strataVars

NextMCMC ==
    \/ McConstruct
    \/ McStart
    \/ McStepMH
    \/ McStepMMHMarginal
    \/ McCallListTarget
    \/ McStepMMHJoint
    \/ McStepStretch
    \/ McFinish

SpecMCMC == InitMCMC /\ [][NextMCMC]_vars

-----------------------------------------------------------------------------
(* IS.__init__, IS.init_is and IS.sampling_step, with the constructor of    *)
(* Distribution (Distributions.py) that they call.                         *)

\* The parameters of Distribution.__init__ besides self.
DistributionParams == {"dist_name", "copula", "params", "copula_params"}

\* A call Distribution(k1=..., k2=...) with the given keywords: binding the
\* arguments raises TypeError for a keyword that is not a parameter.
DistributionCall(keywords) ==
    IF keywords \subseteq DistributionParams THEN "ok" ELSE "TypeError"

\* The calls IS(...) of the model.  A function argument is given by the
\* number of parameters of its signature.
IsCalls ==
    [dimension : {"None", "1", "2"},
     nsamples : {"None", "1", "2", "3"},
     log_pdf_target : {"None", "callable_1", "callable_2", "callable_3", "not_callable"},
     pdf_target : {"None", "str", "list_str", "callable_1", "callable_2", "not_callable"},
     pdf_proposal : {"None", "str", "list_str", "callable"}]

InitIS ==
    /\ is_args \in IsCalls
    /\ is_pc = "new"
    /\ is_error = "none"
    /\ is_samples = <<>>
    /\ is_weights = <<>>
    \* no Krig object exists
    /\ krig_args = <<>>
    /\ krig_pc = "idle"
    /\ krig_error = "none"
    /\ krig_samples = <<>>
    /\ corr_model_params = <<>>
    /\ krig_evals = {}
    /\ krig_design = <<>>
    /\ krig_corr = <<>>
    /\ krig_answers = {}
    /\ krig_check = <<>>
    /\ rng_used = {}
    \* no Strata object is being read from a file
    /\ input_file = <<>>
    /\ st_pc = "idle"
    /\ st_error = "none"
    /\ st_origins = <<>>
    /\ st_widths = <<>>
    /\ st_weights = <<>>
    \* no RSS object exists
    /\ n_strata = <<1>>
    /\ dist_params = <<<<0, 1>>>>
    /\ option = "Refined"
    /\ cut_type = "None"
    /\ nSamples = 1
    /\ origins = <<<<0>>>>
    /\ widths = <<<<Scale>>>>
    /\ weights = <<Scale>>
    /\ samplesU01 = <<<<0>>>>
    /\ samples = <<<<0>>>>
    /\ rss_pc = "idle"
    /\ last = NoSplit
    /\ n_iter = 0
    /\ n_halved = 0
    /\ min_train_size = <<>>
    /\ ff = 0
    /\ ind_train = {}
    /\ ind_update = {}
    /\ x_design = <<>>
    \* no MCMC object exists
    /\ mc_args = <<>>
    /\ algorithm = "None"
    /\ seed = <<>>
    /\ ensemble_size = 0
    /\ pdf_target_type = "unset"
    /\ mc_pc = "idle"
    /\ branch = "none"
    /\ mc_samples = <<>>
    /\ mc_i = 0
    /\ mc_j = 0
    /\ candidate = <<>>
    /\ current = <<>>
    /\ log_p_current = 0
    /\ list_log_p_current = <<>>
    /\ n_accepts = 0
    /\ n_proposals = 0
    /\ stretch_last = <<>>
    /\ accept_ratio = <<>>
    /\ mc_output = <<>>

\* The exception init_is ends with, "none" when it returns.
InitIsError ==
    CASE is_args.dimension = "None" -> "NotImplementedError"
      [] is_args.nsamples = "None" -> "NotImplementedError"
      [] is_args.pdf_target = "None" /\ is_args.log_pdf_target = "None" -> "ValueError"
      [] is_args.log_pdf_target \in {"not_callable", "callable_3"} -> "ValueError"
      [] is_args.log_pdf_target = "None" /\ is_args.pdf_target \in {"str", "list_str"} ->
            IF DistributionCall({"name", "copula"}) = "ok" THEN "none" ELSE "TypeError"
      [] is_args.log_pdf_target = "None" /\ is_args.pdf_target # "callable_2" -> "ValueError"
      [] is_args.pdf_proposal = "None" -> "ValueError"
      [] is_args.pdf_proposal \notin {"str", "list_str"} -> "ValueError"
      [] OTHER -> "none"

\* The inputs init_is is written to accept.
IsValidCall == InitIsError \in {"none", "TypeError"}

\* IS.__init__: init_is, then sampling_step, whose first statement is
\* Distribution(name=self.pdf_proposal, copula=self.pdf_proposal_copula).
\* Distribution.__init__ has no parameter `name`, so the call raises on
\* every path; weighting_step, which starts with the same call, is never
\* entered and no IS object comes to exist for resample to be called on.
IsConstruct ==
    /\ is_pc = "new"
    /\ LET err == IF InitIsError # "none" THEN InitIsError
                  ELSE DistributionCall({"name", "copula"})
       IN  IF err = "ok"
           THEN FALSE
           ELSE /\ is_pc' = "raised"
                /\ is_error' = err
    /\ UNCHANGED <<is_args, is_samples, is_weights>>
    /\ UNCHANGED <<rssVars, mcVars, krigVars>>
    /\ UNCHANGED rng_used
    /\ UNCHANGED strataVars

NextIS == IsConstruct

SpecIS == InitIS /\ [][NextIS]_vars

-----------------------------------------------------------------------------
(* Krig (Surrogates.py): init_krig, regress, corr, run_krig, interpolate    *)
(* and jacobian.                                                           *)
(*                                                                         *)
(* Design sites and query points are integer vectors and the              *)
(* hyperparameters theta are fractions, one value shared by all axes, so   *)
(* that the Linear, Spherical and Cubic correlations are fractions and are *)
(* computed exactly; the Exponential and Gaussian kernels are not          *)
(* modelled.  A number is a pair <<numerator, denominator>> in lowest      *)
(* terms with a positive denominator.  Results of the linear algebra that  *)
(* no branch depends on (beta, gamma, sigma, the factors) are kept as the  *)
(* terms they are computed from.                                           *)

Abs(a) == IF a < 0 THEN -a ELSE a

RECURSIVE Gcd(_, _)
Gcd(a, b) == IF b = 0 THEN a ELSE Gcd(b, a % b)

\* The fraction n / d, d > 0, in lowest terms.
Frac(n, d) == LET g == Gcd(Abs(n), d) IN <<n \div g, d \div g>>

FracMul(p, q) == Frac(p[1] * q[1], p[2] * q[2])

FracAdd(p, q) ==
    LET l == (p[2] \div Gcd(p[2], q[2])) * q[2]
    IN  Frac(p[1] * (l \div p[2]) + q[1] * (l \div q[2]), l)

FracSub(p, q) == FracAdd(p, <<-q[1], q[2]>>)

RECURSIVE FracProd(_)
FracProd(s) == IF s = <<>> THEN <<1, 1>> ELSE FracMul(Head(s), FracProd(Tail(s)))

\* One factor of the Linear kernel for the distance dist along an axis:
\* max(0, 1 - theta * dist).
LinearFactor(theta, dist) ==
    IF theta[1] * dist >= theta[2] THEN <<0, 1>>
    ELSE Frac(theta[2] - theta[1] * dist, theta[2])

\* zeta_matrix of the Spherical and Cubic kernels when their polynomial is
\* evaluated.  zeta_matrix = min(1, theta * dist); `indices = zeta_matrix`
\* binds a second name to the same array, and indices[indices == 1] = 0 then
\* writes 0 into zeta_matrix wherever it was 1.
ZetaMatrix(theta, dist) ==
    IF theta[1] * dist >= theta[2] THEN <<0, 1>> ELSE Frac(theta[1] * dist, theta[2])

\* One factor of the Spherical kernel: 1 - 1.5 zeta + 0.5 zeta^3.
SphericalFactor(theta, dist) ==
    LET z == ZetaMatrix(theta, dist)
    IN  Frac(2 * z[2] * z[2] * z[2] - 3 * z[1] * z[2] * z[2] + z[1] * z[1] * z[1],
             2 * z[2] * z[2] * z[2])

\* One factor of the Cubic kernel: 1 - 3 zeta^2 + 2 zeta^3.
CubicFactor(theta, dist) ==
    LET z == ZetaMatrix(theta, dist)
    IN  Frac(z[2] * z[2] * z[2] - 3 * z[1] * z[1] * z[2] + 2 * z[1] * z[1] * z[1],
             z[2] * z[2] * z[2])

\* The function c(x, s, params) that corr(model) returns, for one point x
\* and one site s and finite params: the product of the factors over the axes.
corr(model, x, s, theta) ==
    FracProd([a \in DOMAIN x |->
                CASE model = "Linear" -> LinearFactor(theta, Abs(x[a] - s[a]))
                  [] model = "Spherical" -> SphericalFactor(theta, Abs(x[a] - s[a]))
                  [] OTHER -> CubicFactor(theta, Abs(x[a] - s[a]))])

\* rx for a list of points xs and the sites ss: rx[j][i] = c(xs[i], ss[j]).
CorrMatrix(model, xs, ss, theta) ==
    [j \in DOMAIN ss |->
        [i \in DOMAIN xs |-> corr(model, xs[i], ss[j], theta)] \o <<>>] \o <<>>

\* Determinants of the leading k x k block of a matrix, k <= 3.
Minor(r, k) ==
    CASE k = 1 -> r[1][1]
      [] k = 2 -> FracSub(FracMul(r[1][1], r[2][2]), FracMul(r[1][2], r[2][1]))
      [] OTHER ->
           FracAdd(FracSub(FracMul(r[1][1], FracSub(FracMul(r[2][2], r[3][3]),
                                                    FracMul(r[2][3], r[3][2]))),
                           FracMul(r[1][2], FracSub(FracMul(r[2][1], r[3][3]),
                                                    FracMul(r[2][3], r[3][1])))),
                   FracMul(r[1][3], FracSub(FracMul(r[2][1], r[3][2]),
                                            FracMul(r[2][2], r[3][1]))))

\* np.linalg.det of a matrix of at most 3 rows.
Det(r) == Minor(r, Len(r))

\* np.linalg.cholesky succeeds: the symmetric matrix is positive definite,
\* that is, its leading minors are positive.
PositiveDefinite(r) == \A k \in 1..Len(r) : Minor(r, k)[1] > 0

FracLess(p, q) == p[1] * q[2] < q[1] * p[2]

\* The value that a float takes when 1.5 * theta exceeds the largest finite
\* float: inf.
Inf == <<1, 0>>

\* The largest finite value of theta (the float range, scaled down).
MaxTheta == 4

\* Line 375: 1.5 * self.corr_model_params in float arithmetic.
Inflate(theta) ==
    IF theta[2] = 0 \/ 3 * theta[1] > 2 * theta[2] * MaxTheta THEN Inf
    ELSE Frac(3 * theta[1], 2 * theta[2])

\* The row of fx that the function r(s) of regress(model) builds for one
\* point s.  For 'Constant' r assigns fx and jf and returns nothing.
RECURSIVE QuadraticTerms(_, _)
QuadraticTerms(s, j) ==
    IF j > Len(s) THEN <<>>
    ELSE [k \in 1..(Len(s) - j + 1) |-> s[j] * s[j + k - 1]] \o QuadraticTerms(s, j + 1)

regress(model, s) ==
    CASE model = "Linear" -> <<1>> \o s
      [] model = "Quadratic" -> <<1>> \o s \o QuadraticTerms(s, 1)
      [] OTHER -> <<>>

\* f_ = self.reg_model(s_): one row per design site.
RegressionMatrix(model, ss) == [i \in DOMAIN ss |-> regress(model, ss[i])]

\* np.linalg.matrix_rank of g_, the triangular factor of c_inv f_, which is
\* the rank of f_ since c_inv is invertible; f_ has at most 3 rows.
MatrixRank(f) ==
    LET rows == DOMAIN f
        cols == DOMAIN f[1]
        Minor2(i, j, a, b) == f[i][a] * f[j][b] - f[i][b] * f[j][a]
        Det3(a, b, c) == f[1][a] * Minor2(2, 3, b, c) - f[1][b] * Minor2(2, 3, a, c)
                         + f[1][c] * Minor2(2, 3, a, b)
    IN  IF Len(f) = 3 /\ \E a, b, c \in cols : a < b /\ b < c /\ Det3(a, b, c) # 0 THEN 3
        ELSE IF \E i, j \in rows, a, b \in cols : i < j /\ a < b /\ Minor2(i, j, a, b) # 0
             THEN 2
        ELSE IF \E i \in rows, a \in cols : f[i][a] # 0 THEN 1
        ELSE 0

\* init_krig, lines 670-675: the names of regression models it accepts.
RegModels == {"Linear", "Quadratic"}

\* init_krig, line 679: the names of correlation models it accepts (of these
\* 'Linear', 'Spherical', 'Cubic' and 'Spline' are drawn as inputs).
CorrModels == {"Other", "Exponential", "Gaussian", "Linear", "Spherical", "Cubic", "Spline"}

\* The correlation models for which c(x, s, params) has a branch; for the
\* others it returns the integer 0 it starts with.
CorrBranches == {"Exponential", "Gaussian", "Linear", "Spherical", "Cubic"}

\* Line 668: the default bounds of every hyperparameter.
KrigBounds == <<<<1, 1000>>, <<10000000, 1>>>>

\* fmin_l_bfgs_b starts from x0 projected onto the bounds.
Clip(theta) ==
    IF FracLess(theta, KrigBounds[1]) THEN KrigBounds[1]
    ELSE IF FracLess(KrigBounds[2], theta) THEN KrigBounds[2]
    ELSE theta

\* The test of the while loop at line 374, np.linalg.det(r_) < 10**(-12).
\* At theta = inf the diagonal of r_ is inf * 0 = nan, so is the determinant,
\* and the comparison is False.
DetBelowTolerance(model, ss, theta) ==
    IF theta[2] = 0 THEN FALSE
    ELSE LET d == Det(CorrMatrix(model, ss, ss, theta))
         IN  IF d[1] <= 0 THEN TRUE ELSE (d[2] \div d[1]) \div 1000000 >= 1000000

\* What one call log_likelihood(p0, ...) does, lines 380-423.  The Cholesky
\* factorization of r__ is guarded (382-385); np.linalg.solve at 396 raises
\* when g_ll is not square (fewer sites than basis functions) and, like the
\* factorization at 413, raises on an exactly singular matrix and goes on
\* when rounding has left it regular.
log_likelihood(reg, model, ss, p0) ==
    LET f == RegressionMatrix(reg, ss)
    IN  IF ~PositiveDefinite(CorrMatrix(model, ss, ss, p0)) THEN {"sentinel"}
        ELSE IF Len(f) < Len(f[1]) THEN {"LinAlgError@396"}
        ELSE IF MatrixRank(f) < Len(f[1]) THEN {"LinAlgError@396", "LinAlgError@413", "value"}
        ELSE {"value"}

\* Points at which the optimizer may evaluate the likelihood after x0.
ThetaGrid == {<<1, 2>>, <<1, 1>>, <<2, 1>>}

\* p_[0]: the optimizer returns x0 when the likelihood there is the sentinel
\* (the gradient it got is zero), and otherwise a point it has evaluated.
OptimizerResult(evals, x0) ==
    IF [p0 |-> x0, outcome |-> "sentinel"] \in evals THEN {x0}
    ELSE {e.p0 : e \in {e \in evals : e.outcome = "value"}}

\* Lines 445-467 at the hyperparameters the optimizer returned.
run_krig_tail(reg, model, ss, theta) ==
    LET f == RegressionMatrix(reg, ss)
        Min2(a, b) == IF a < b THEN a ELSE b
    IN  IF ~PositiveDefinite(CorrMatrix(model, ss, ss, theta)) THEN "LinAlgError@447"
        ELSE IF MatrixRank(f) # Min2(Len(f), Len(f[1])) THEN "NotImplementedError: rank"
        ELSE IF Len(f) < Len(f[1]) THEN "LinAlgError@458"
        ELSE "ok"

FracDiv(p, q) ==
    IF q[1] > 0 THEN Frac(p[1] * q[2], p[2] * q[1])
    ELSE Frac(-(p[1] * q[2]), p[2] * (-q[1]))

RECURSIVE FracSum(_)
FracSum(s) == IF s = <<>> THEN <<0, 1>> ELSE FracAdd(Head(s), FracSum(Tail(s)))

\* np.matmul of a matrix and a vector, of two matrices, and the transpose.
\* (s \o <<>> is the sequence s; it makes TLC hold the array as a tuple of
\* values, as numpy does, instead of recomputing an entry at each use.)
MatVec(a, v) ==
    [i \in DOMAIN a |-> FracSum([k \in DOMAIN v |-> FracMul(a[i][k], v[k])])] \o <<>>

MatMul(a, b) ==
    [i \in DOMAIN a |-> [j \in DOMAIN b[1] |->
        FracSum([k \in DOMAIN b |-> FracMul(a[i][k], b[k][j])])] \o <<>>] \o <<>>

Transpose(a) == [j \in DOMAIN a[1] |-> [i \in DOMAIN a |-> a[i][j]] \o <<>>] \o <<>>

\* The matrix without row i and column j.
Without(a, i, j) ==
    [r \in 1..(Len(a) - 1) |-> [c \in 1..(Len(a) - 1) |->
        a[IF r < i THEN r ELSE r + 1][IF c < j THEN c ELSE c + 1]] \o <<>>] \o <<>>

\* The inverse of a regular matrix of at most 3 rows, by cofactors.
Inverse(a) ==
    IF Len(a) = 1 THEN <<<<FracDiv(<<1, 1>>, a[1][1])>>>>
    ELSE LET det == Det(a)
         IN  [i \in DOMAIN a |-> [j \in DOMAIN a |->
                LET cof == Det(Without(a, j, i))
                IN  FracDiv(IF (i + j) % 2 = 0 THEN cof ELSE <<-cof[1], cof[2]>>, det)]
                \o <<>>] \o <<>>

\* Lines 447-458.  c is the Cholesky factor of r_, so c_inv.T c_inv is the
\* inverse of r_, and beta, the least-squares solution of
\* (c_inv f_) beta = c_inv y_ found through the QR factors, solves the normal
\* equations f_.T r_^-1 f_ beta = f_.T r_^-1 y_.
beta(args, ss, theta) ==
    LET f == [i \in DOMAIN ss |-> [k \in DOMAIN regress(args.reg_model, ss[i]) |->
                                     <<regress(args.reg_model, ss[i])[k], 1>>] \o <<>>] \o <<>>
        y == [i \in DOMAIN ss |-> <<args.values[i], 1>>] \o <<>>
        r_inv == Inverse(CorrMatrix(args.corr_model, ss, ss, theta))
        ftr == MatMul(Transpose(f), r_inv)
    IN  MatVec(Inverse(MatMul(ftr, f)), MatVec(ftr, y))

\* gamma with the trend left in: r_^-1 y_.
gammaOfValues(args, ss, theta) ==
    MatVec(Inverse(CorrMatrix(args.corr_model, ss, ss, theta)),
           [i \in DOMAIN ss |-> <<args.values[i], 1>>] \o <<>>)

\* Line 459: gamma = c_inv.T c_inv (y_ - f_ beta).
gamma(args, ss, theta) ==
    LET f == [i \in DOMAIN ss |-> [k \in DOMAIN regress(args.reg_model, ss[i]) |->
                                     <<regress(args.reg_model, ss[i])[k], 1>>] \o <<>>] \o <<>>
        fb == MatVec(f, beta(args, ss, theta))
    IN  MatVec(Inverse(CorrMatrix(args.corr_model, ss, ss, theta)),
               [i \in DOMAIN ss |-> FracSub(<<args.values[i], 1>>, fb[i])] \o <<>>)

\* interpolate(x) for the rows xs, lines 470-472: fx beta + rx.T gamma with
\* rx = corr_model(x, s = self.samples, params = self.corr_model_params).
interpolate(args, ss, theta, xs) ==
    LET rx == CorrMatrix(args.corr_model, xs, ss, theta)
        b == beta(args, ss, theta)
        g == gamma(args, ss, theta)
    IN  [i \in DOMAIN xs |->
            FracAdd(FracSum([k \in DOMAIN b |->
                               FracMul(<<regress(args.reg_model, xs[i])[k], 1>>, b[k])]),
                    FracSum([j \in DOMAIN ss |-> FracMul(rx[j][i], g[j])]))]

\* beta, gamma, sig, F_dash, C_inv and G, as the inputs they are computed from.
Design(args, ss, theta) ==
    [reg_model |-> args.reg_model, corr_model |-> args.corr_model,
     samples |-> ss, params |-> theta]

\* self.samples after a call c(x, s=self.samples, params): c writes into
\* arrays it has created (zeta_matrix through indices, drdt, drdx) and only
\* reads s.
SitesAfterCorrClamped(model, x, s, theta) ==
    [j \in DOMAIN s |-> [a \in DOMAIN s[j] |->
        IF theta[1] * Abs(x[a] - s[j][a]) >= theta[2] THEN 0 ELSE s[j][a]]]
SitesAfterCorr(model, x, s, theta) == s

\* The design sites, regression and correlation models and initial
\* hyperparameters (<<>> for None) that Krig is constructed with.
KrigDesigns ==
    { <<<<0>>, <<1>>>>, <<<<0>>, <<0>>>>, <<<<0>>, <<1>>, <<3>>>>,
      <<<<0, 0>>, <<1, 0>>, <<0, 1>>>>, <<<<0, 0>>, <<1, 1>>, <<2, 2>>>> }

\* The responses given with a design: one column, the sum of the squares
\* of the coordinates of each site, or 1 at the first site and 0 elsewhere.
KrigValues(ss) ==
    { [i \in DOMAIN ss |-> SeqSum([a \in DOMAIN ss[i] |-> ss[i][a] * ss[i][a]])],
      [i \in DOMAIN ss |-> IF i = 1 THEN 1 ELSE 0] }

KrigCalls ==
    { [samples |-> ss, values |-> y, reg_model |-> reg, corr_model |-> cm,
       corr_model_params |-> p0] :
        ss \in KrigDesigns, y \in UNION {KrigValues(d) : d \in KrigDesigns},
        reg \in {"Constant", "Linear", "Quadratic"},
        cm \in {"Linear", "Spherical", "Cubic", "Spline"},
        p0 \in {<<>>, <<0, 1>>, <<1, 2>>} }

\* Points at which the fitted model is queried.
QueryPoints(n) == IF n = 1 THEN {<<0>>, <<2>>} ELSE {<<0, 0>>, <<1, 2>>}

InitKrig ==
    /\ krig_args \in KrigCalls
    /\ krig_args.values \in KrigValues(krig_args.samples)
    /\ Len(krig_args.samples[1]) = 2 => krig_args.corr_model \in {"Linear", "Spline"}
    /\ krig_pc = "new"
    /\ krig_error = "none"
    /\ krig_samples = <<>>
    /\ corr_model_params = <<>>
    /\ krig_evals = {}
    /\ krig_design = <<>>
    /\ krig_corr = <<>>
    /\ krig_answers = {}
    /\ krig_check = <<>>
    /\ rng_used = {}
    \* no Strata object is being read from a file
    /\ input_file = <<>>
    /\ st_pc = "idle"
    /\ st_error = "none"
    /\ st_origins = <<>>
    /\ st_widths = <<>>
    /\ st_weights = <<>>
    \* no RSS object exists
    /\ n_strata = <<1>>
    /\ dist_params = <<<<0, 1>>>>
    /\ option = "Refined"
    /\ cut_type = "None"
    /\ nSamples = 1
    /\ origins = <<<<0>>>>
    /\ widths = <<<<Scale>>>>
    /\ weights = <<Scale>>
    /\ samplesU01 = <<<<0>>>>
    /\ samples = <<<<0>>>>
    /\ rss_pc = "idle"
    /\ last = NoSplit
    /\ n_iter = 0
    /\ n_halved = 0
    /\ min_train_size = <<>>
    /\ ff = 0
    /\ ind_train = {}
    /\ ind_update = {}
    /\ x_design = <<>>
    \* no MCMC object exists
    /\ mc_args = <<>>
    /\ algorithm = "None"
    /\ seed = <<>>
    /\ ensemble_size = 0
    /\ pdf_target_type = "unset"
    /\ mc_pc = "idle"
    /\ branch = "none"
    /\ mc_samples = <<>>
    /\ mc_i = 0
    /\ mc_j = 0
    /\ candidate = <<>>
    /\ current = <<>>
    /\ log_p_current = 0
    /\ list_log_p_current = <<>>
    /\ n_accepts = 0
    /\ n_proposals = 0
    /\ stretch_last = <<>>
    /\ accept_ratio = <<>>
    /\ mc_output = <<>>
    \* no IS object exists
    /\ is_args = <<>>
    /\ is_pc = "idle"
    /\ is_error = "none"
    /\ is_samples = <<>>
    /\ is_weights = <<>>

\* Krig(...), lines 347-357 and 364-373: the attributes are stored, init_krig
\* checks the model names and fills in the defaults, and run_krig computes f_
\* and the first r_.
KrigConstruct ==
    /\ krig_pc = "new"
    /\ krig_samples' = krig_args.samples
    /\ IF krig_args.reg_model \notin RegModels
       THEN /\ krig_pc' = "raised"
            /\ krig_error' = "NotImplementedError: reg_model"
            /\ corr_model_params' = krig_args.corr_model_params
       ELSE IF krig_args.corr_model \notin CorrModels
       THEN /\ krig_pc' = "raised"
            /\ krig_error' = "NotImplementedError: corr_model"
            /\ corr_model_params' = krig_args.corr_model_params
       ELSE /\ krig_pc' = "guard"
            /\ krig_error' = "none"
            /\ corr_model_params' = IF krig_args.corr_model_params = <<>> THEN <<1, 1>>
                                    ELSE krig_args.corr_model_params
    /\ UNCHANGED <<krig_args, krig_evals, krig_design, krig_corr, krig_answers,
                   krig_check>>
    /\ UNCHANGED <<rssVars, mcVars, isVars>>
    /\ UNCHANGED rng_used
    /\ UNCHANGED strataVars

\* Line 374 for a correlation model without a branch: r_ is the integer 0 and
\* np.linalg.det raises on it.
KrigDetRaise ==
    /\ krig_pc = "guard"
    /\ krig_args.corr_model \notin CorrBranches
    /\ krig_pc' = "raised"
    /\ krig_error' = "LinAlgError@374"
    /\ UNCHANGED <<krig_args, krig_samples, corr_model_params, krig_evals, krig_design,
                   krig_corr, krig_answers, krig_check>>
    /\ UNCHANGED <<rssVars, mcVars, isVars>>
    /\ UNCHANGED rng_used
    /\ UNCHANGED strataVars

\* One iteration of the while loop, lines 374-376.
KrigInflate ==
    /\ krig_pc = "guard"
    /\ krig_args.corr_model \in CorrBranches
    /\ DetBelowTolerance(krig_args.corr_model, krig_samples, corr_model_params)
    /\ corr_model_params' = Inflate(corr_model_params)
    /\ UNCHANGED <<krig_args, krig_pc, krig_error, krig_samples, krig_evals, krig_design,
                   krig_corr, krig_answers, krig_check>>
    /\ UNCHANGED <<rssVars, mcVars, isVars>>
    /\ UNCHANGED rng_used
    /\ UNCHANGED strataVars

\* One call of log_likelihood by fmin_l_bfgs_b (line 425): the first one
\* when the while loop has ended, at x0, and later ones wherever the
\* optimizer goes.  An exception leaves the optimizer and the constructor.
KrigLikelihood ==
    /\ krig_pc \in {"guard", "optimize"}
    /\ krig_args.corr_model \in CorrBranches
    /\ \E p0 \in ThetaGrid \cup {Clip(corr_model_params)} :
          /\ \/ /\ krig_pc = "guard"
                /\ ~DetBelowTolerance(krig_args.corr_model, krig_samples, corr_model_params)
                /\ p0 = Clip(corr_model_params)
             \/ /\ krig_pc = "optimize"
                /\ [p0 |-> Clip(corr_model_params), outcome |-> "value"] \in krig_evals
          /\ \E o \in log_likelihood(krig_args.reg_model, krig_args.corr_model,
                                     krig_samples, p0) :
                IF o \notin {"sentinel", "value"}
                THEN /\ krig_pc' = "raised"
                     /\ krig_error' = o
                     /\ UNCHANGED krig_evals
                ELSE /\ krig_pc' = "optimize"
                     /\ krig_evals' = krig_evals \cup {[p0 |-> p0, outcome |-> o]}
                     /\ UNCHANGED krig_error
    /\ UNCHANGED <<krig_args, krig_samples, corr_model_params, krig_design, krig_corr,
                   krig_answers, krig_check>>
    /\ UNCHANGED <<rssVars, mcVars, isVars>>
    /\ UNCHANGED rng_used
    /\ UNCHANGED strataVars

\* The value y that interpolate(x) returns (line 472) or the gradient that
\* jacobian(x) returns (line 486), as the terms it is computed from.
Predict(x, rx, design) == [fx |-> regress(design.reg_model, x), rx |-> rx, fit |-> design]

\* The optimizer returns: lines 427-467 and, back in __init__, lines 359-360,
\* where the fitted model is queried at its own design sites.
KrigFinish ==
    /\ krig_pc = "optimize"
    /\ \E theta \in OptimizerResult(krig_evals, Clip(corr_model_params)) :
          LET err == run_krig_tail(krig_args.reg_model, krig_args.corr_model,
                                   krig_samples, theta)
          IN  /\ corr_model_params' = theta
              /\ IF err # "ok"
                 THEN /\ krig_pc' = "raised"
                      /\ krig_error' = err
                      /\ UNCHANGED <<krig_design, krig_corr, krig_check>>
                 ELSE /\ krig_pc' = "fitted"
                      /\ krig_design' = Design(krig_args, krig_samples, theta)
                      /\ krig_corr' = [model |-> krig_args.corr_model, x |-> krig_samples,
                                       s |-> krig_samples, params |-> theta,
                                       rx |-> CorrMatrix(krig_args.corr_model, krig_samples,
                                                         krig_samples, theta)]
                      /\ krig_check' = interpolate(krig_args, krig_samples, theta,
                                                   krig_samples)
                      /\ UNCHANGED krig_error
    /\ UNCHANGED <<krig_args, krig_samples, krig_evals, krig_answers>>
    /\ UNCHANGED <<rssVars, mcVars, isVars>>
    /\ UNCHANGED rng_used
    /\ UNCHANGED strataVars

\* interpolate(x), lines 469-481, for one point x.
KrigInterpolate ==
    /\ krig_pc = "fitted"
    /\ \E x \in QueryPoints(Len(krig_samples[1])) :
          LET rx == CorrMatrix(krig_design.corr_model, <<x>>, krig_samples, corr_model_params)
          IN  /\ krig_corr' = [model |-> krig_design.corr_model, x |-> <<x>>,
                               s |-> krig_samples, params |-> corr_model_params, rx |-> rx]
              /\ krig_answers' = krig_answers \cup
                    {[method |-> "interpolate", x |-> x, y |-> Predict(x, rx, krig_design)]}
              /\ krig_samples' = SitesAfterCorr(krig_design.corr_model, x, krig_samples,
                                                corr_model_params)
    /\ UNCHANGED <<krig_args, krig_pc, krig_error, corr_model_params, krig_evals, krig_design,
                   krig_check>>
    /\ UNCHANGED <<rssVars, mcVars, isVars>>
    /\ UNCHANGED rng_used
    /\ UNCHANGED strataVars

\* jacobian(x), lines 483-489, for one point x.  With the 'Linear' basis jf
\* has two axes and the einsum at line 486, which names three, raises.
KrigJacobian ==
    /\ krig_pc = "fitted"
    /\ \E x \in QueryPoints(Len(krig_samples[1])) :
          LET rx == CorrMatrix(krig_design.corr_model, <<x>>, krig_samples, corr_model_params)
          IN  /\ krig_corr' = [model |-> krig_design.corr_model, x |-> <<x>>,
                               s |-> krig_samples, params |-> corr_model_params, rx |-> rx]
              /\ krig_answers' = krig_answers \cup
                    {[method |-> "jacobian", x |-> x,
                      y |-> IF krig_design.reg_model = "Linear"
                            THEN [raised |-> "ValueError"]
                            ELSE [y_grad |-> Predict(x, rx, krig_design)]]}
              /\ krig_samples' = SitesAfterCorr(krig_design.corr_model, x, krig_samples,
                                                corr_model_params)
    /\ UNCHANGED <<krig_args, krig_pc, krig_error, corr_model_params, krig_evals, krig_design,
                   krig_check>>
    /\ UNCHANGED <<rssVars, mcVars, isVars>>
    /\ UNCHANGED rng_used
    /\ UNCHANGED strataVars

NextKrig ==
    \/ KrigConstruct
    \/ KrigDetRaise
    \/ KrigInflate
    \/ KrigLikelihood
    \/ KrigFinish
    \/ KrigInterpolate
    \/ KrigJacobian

SpecKrig == InitKrig /\ [][NextKrig]_vars

-----------------------------------------------------------------------------
(* Strata(input_file=...): a stratified design read from a file, lines      *)
(* 519-550 of SampleMethods.py.  A row of the file holds the origin and     *)
(* then the widths of one stratum.  The numbers of the file are held in     *)
(* millionths; the widths along every axis but the last are multiples of    *)
(* one half, so that the volume of a stratum of n axes is a whole number    *)
(* of units of 1 / (2^(n-1) * 10^6).                                        *)

\* The numbers of a file are whole multiples of 1 / Million.
Million == 1000000

HalfWidth == Million \div 2

\* Lines 540 and 542: the tolerance 1e-5 is 1 / Tolerance.
Tolerance == 100000

\* The most rows that a file has.
MaxRows == 3

\* The rows of a file for a design of n axes.  The last width is a half, one,
\* or one of these a few millionths off.
FileRows(n) ==
    { o \o w : o \in {[a \in 1..n |-> 0], [a \in 1..n |-> IF a = 1 THEN HalfWidth ELSE 0]},
              w \in { [a \in 1..n |-> IF a < n THEN w1 ELSE wn] :
                         w1 \in {HalfWidth, Million},
                         wn \in {HalfWidth, Million, Million - 7, Million - 15,
                                  Million + 7, Million + 15} } }

\* The files: 1 to MaxRows rows of one length.
Files ==
    UNION { [1..m -> FileRows(n)] : m \in 1..MaxRows, n \in 1..2 }

\* np.loadtxt(input_file), line 534, with its default ndmin=0: the array is
\* squeezed, so a file of one row or of one column gives an array of one axis.
loadtxt(file) ==
    IF Len(file) = 1 THEN [ndim |-> 1, data |-> file[1]]
    ELSE IF Len(file[1]) = 1 THEN [ndim |-> 1, data |-> [r \in DOMAIN file |-> file[r][1]]]
    ELSE [ndim |-> 2, data |-> file]

\* Lines 535 and 536: the columns before and from shape[1] // 2.
OriginColumns(rows) == [r \in DOMAIN rows |-> SubSeq(rows[r], 1, Len(rows[r]) \div 2)]
WidthColumns(rows) ==
    [r \in DOMAIN rows |-> SubSeq(rows[r], Len(rows[r]) \div 2 + 1, Len(rows[r]))]

\* 1 in the unit of the volumes of n axes.
Unity(n) == Pow2(n - 1) * Million

\* np.prod of one row of widths.
Volume(w) == SeqProd([a \in DOMAIN w |-> IF a < Len(w) THEN w[a] \div HalfWidth ELSE w[a]])

\* Line 539: space_fill = np.sum(np.prod(self.widths, 1)).
SpaceFill(w) == SeqSum([r \in DOMAIN w |-> Volume(w[r])])

\* Line 540: 1 - space_fill > 1e-5.  For whole numbers d and u,
\* d / u > 1 / Tolerance exactly when d > u \div Tolerance.
NotSpaceFilling(space_fill, n) == Unity(n) - space_fill > Unity(n) \div Tolerance

\* Line 542: 1 - space_fill < -1e-5.
OverFilling(space_fill, n) == Unity(n) - space_fill < -(Unity(n) \div Tolerance)

InitStrata ==
    /\ input_file \in Files
    /\ st_pc = "new"
    /\ st_error = "none"
    /\ st_origins = <<>>
    /\ st_widths = <<>>
    /\ st_weights = <<>>
    \* no IS object exists
    /\ is_args = <<>>
    /\ is_pc = "idle"
    /\ is_error = "none"
    /\ is_samples = <<>>
    /\ is_weights = <<>>
    \* no Krig object exists
    /\ krig_args = <<>>
    /\ krig_pc = "idle"
    /\ krig_error = "none"
    /\ krig_samples = <<>>
    /\ corr_model_params = <<>>
    /\ krig_evals = {}
    /\ krig_design = <<>>
    /\ krig_corr = <<>>
    /\ krig_answers = {}
    /\ krig_check = <<>>
    /\ rng_used = {}
    \* no RSS object exists
    /\ n_strata = <<1>>
    /\ dist_params = <<<<0, 1>>>>
    /\ option = "Refined"
    /\ cut_type = "None"
    /\ nSamples = 1
    /\ origins = <<<<0>>>>
    /\ widths = <<<<Scale>>>>
    /\ weights = <<Scale>>
    /\ samplesU01 = <<<<0>>>>
    /\ samples = <<<<0>>>>
    /\ rss_pc = "idle"
    /\ last = NoSplit
    /\ n_iter = 0
    /\ n_halved = 0
    /\ min_train_size = <<>>
    /\ ff = 0
    /\ ind_train = {}
    /\ ind_update = {}
    /\ x_design = <<>>
    \* no MCMC object exists
    /\ mc_args = <<>>
    /\ algorithm = "None"
    /\ seed = <<>>
    /\ ensemble_size = 0
    /\ pdf_target_type = "unset"
    /\ mc_pc = "idle"
    /\ branch = "none"
    /\ mc_samples = <<>>
    /\ mc_i = 0
    /\ mc_j = 0
    /\ candidate = <<>>
    /\ current = <<>>
    /\ log_p_current = 0
    /\ list_log_p_current = <<>>
    /\ n_accepts = 0
    /\ n_proposals = 0
    /\ stretch_last = <<>>
    /\ accept_ratio = <<>>
    /\ mc_output = <<>>

\* Strata(input_file=input_file), lines 519-550, with n_strata None.
StrataConstruct ==
    /\ st_pc = "new"
    /\ LET array_tmp == loadtxt(input_file)
       IN  IF array_tmp.ndim # 2
           THEN \* array_tmp[:, ...] at line 535: too many indices
                /\ st_pc' = "raised"
                /\ st_error' = "IndexError"
                /\ UNCHANGED <<st_origins, st_widths, st_weights>>
           ELSE LET w == WidthColumns(array_tmp.data)
                    n == Len(w[1])
                    space_fill == SpaceFill(w)
                IN  /\ st_origins' = OriginColumns(array_tmp.data)
                    /\ st_widths' = w
                    /\ IF NotSpaceFilling(space_fill, n)
                       THEN /\ st_pc' = "exit"
                            /\ st_error' = "Error: The stratum design is not space-filling."
                            /\ UNCHANGED st_weights
                       ELSE IF OverFilling(space_fill, n)
                       THEN /\ st_pc' = "exit"
                            /\ st_error' = "Error: The stratum design is over-filling."
                            /\ UNCHANGED st_weights
                       ELSE /\ st_pc' = "done"
                            /\ st_weights' = [r \in DOMAIN w |-> Volume(w[r])]
                            /\ UNCHANGED st_error
    /\ UNCHANGED input_file
    /\ UNCHANGED <<rssVars, mcVars, isVars, krigVars>>
    /\ UNCHANGED rng_used

NextStrata == StrataConstruct

SpecStrata == InitStrata /\ [][NextStrata]_vars

-----------------------------------------------------------------------------
(* Properties of the stratum partition and of RSS.                         *)

\* Twice the cut of the last split along its axis, and the index of the
\* stratum the last iteration appended.
LastAxis == last.dir[1]
LastCut2 == 2 * last.origin[LastAxis] + last.width[LastAxis]
LastNew == Len(origins)
LastSplit == last.bin # 0 /\ last.dir # <<>>

\* Sample u lies in the half-open box of stratum k.
InBox(u, k) ==
    \A a \in Axes : origins[k][a] <= u[a] /\ u[a] < origins[k][a] + widths[k][a]

\* Strata j and k share no point.
Disjoint(j, k) ==
    \E a \in Axes : \/ origins[j][a] + widths[j][a] <= origins[k][a]
                    \/ origins[k][a] + widths[k][a] <= origins[j][a]

\* C1 (space-filling): as long as every iteration has halved one stratum
\* along one axis, the volumes of the strata (the products of their widths)
\* sum to the volume of the unit hypercube, every stored weight equals the
\* product of its stratum's widths, and the weights sum to that volume too.
C1_SpaceFilling ==
    n_halved = n_iter =>
        /\ DOMAIN weights = DOMAIN widths
        /\ SeqSum([k \in DOMAIN widths |-> SeqProd(widths[k])]) = One
        /\ \A k \in DOMAIN weights : weights[k] = SeqProd(widths[k])
        /\ SeqSum(weights) = One

\* C1's case: a Gradient run in which every iteration halved an axis, one
\* stratum twice, and which has returned.
C1_Witness ==
    /\ rss_pc = "done"
    /\ option = "Gradient"
    /\ n_iter >= 2
    /\ n_halved = n_iter
    /\ \E k \in DOMAIN weights : 4 * weights[k] = SeqProd(StrataWidths(n_strata)[1])

C3_NonOverlap ==
    /\ Len(origins) = initial_s + n_iter
    /\ \A k \in DOMAIN origins : \A a \in Axes :
          /\ widths[k][a] > 0
          /\ origins[k][a] >= 0
          /\ origins[k][a] + widths[k][a] <= GridLen(a)
    /\ \A j, k \in DOMAIN origins : j # k => Disjoint(j, k)
    /\ last.bin # 0 =>
          /\ Disjoint(last.bin, LastNew)
          /\ \A a \in Axes :
                /\ origins[last.bin][a] >= last.origin[a]
                /\ origins[LastNew][a] >= last.origin[a]
                /\ origins[last.bin][a] + widths[last.bin][a] <= last.origin[a] + last.width[a]
                /\ origins[LastNew][a] + widths[LastNew][a] <= last.origin[a] + last.width[a]
          /\ SeqProd(widths[last.bin]) + SeqProd(widths[LastNew]) = SeqProd(last.width)

C10_OneSamplePerStratum ==
    /\ \A j, k \in DOMAIN origins : InBox(samplesU01[j], k) <=> j = k
    /\ last.bin # 0 =>
          /\ InBox(samplesU01[LastNew], LastNew)
          /\ ~InBox(last.sample, LastNew)
          /\ InBox(last.sample, last.bin)

\* C11 (split axis): in every iteration without gradient-directed cutting
\* (Refined mode, and Gradient mode with cut_type None or 0) the iteration
\* does not raise, dir2break names one axis, that axis is an axis of maximal
\* width of the chosen stratum before the split, and exactly that axis of
\* the stratum is halved.
C11_SplitAxis ==
    /\ (option = "Refined" \/ cut_type \in {"None", "0"}) => rss_pc # "raised"
    /\ (last.bin # 0 /\ cut_type = "0") =>
          /\ Len(last.dir) = 1
          /\ last.width[last.dir[1]] = SeqMax(last.width)
          /\ 2 * widths[last.bin][last.dir[1]] = last.width[last.dir[1]]
          /\ \A a \in Axes \ {last.dir[1]} : widths[last.bin][a] = last.width[a]

-----------------------------------------------------------------------------
(* Properties of the Markov chain samplers.                                *)

\* The state of axis j (counted from 0) while the MMH loop is at iteration
\* mc_i, coordinate mc_j: axes before mc_j have been written to row mc_i + 1.
AxisState(j) == IF j < mc_j THEN Row(mc_i + 1)[j + 1] ELSE Row(mc_i)[j + 1]

\* The latest row of `samples`, among rows 0..i, that belongs to walker v of
\* the ensemble; walker v owns the rows congruent to v modulo ensemble_size.
LatestRow(v, i) ==
    CHOOSE r \in 0..i : /\ r % ensemble_size = v
                        /\ \A q \in 0..i : q % ensemble_size = v => q <= r

\* C4 (acceptance-ratio bounds): when a run of MH, MMH or Stretch returns,
\* the reported accept_ratio is the number of accepted proposals divided by
\* the number of proposals put to an acceptance test, and lies in [0, 1].
C4_AcceptRatio ==
    mc_pc = "done" =>
        /\ accept_ratio.num * n_proposals = n_accepts * accept_ratio.den
        /\ accept_ratio.num * accept_ratio.den >= 0
        /\ accept_ratio.num * accept_ratio.num <= accept_ratio.den * accept_ratio.den

\* C5 (thinning and burn-in): when a run of MH or MMH with
\* nsamples * jump + nburn >= 2 returns, the raw chain holds
\* nsamples * jump + nburn states, starts at the seed and moves by at most one
\* proposal step per row, and the output is exactly the nsamples raw states at
\* indices nburn, nburn + jump, ..., nburn + (nsamples - 1) * jump.
C5_Thinning ==
    (mc_pc = "done" /\ algorithm \in {"MH", "MMH"} /\ ChainLen >= 2) =>
        /\ Len(mc_samples) = ChainLen
        /\ mc_samples[1] = seed.array
        /\ \A k \in 1..(ChainLen - 1) : \A a \in 1..mc_dimension :
              mc_samples[k + 1][a] - mc_samples[k][a] \in {-1, 0, 1}
        /\ Len(mc_output) = mc_args.nsamples
        /\ \A k \in 1..mc_args.nsamples :
              mc_output[k] = mc_samples[mc_args.nburn + (k - 1) * mc_args.jump + 1]

\* A returned MH run that discards a burn-in state and thins by 2, whose two
\* returned states differ from each other and from the seed.
C5_Witness ==
    /\ mc_pc = "done"
    /\ algorithm = "MH"
    /\ mc_args.nburn = 1
    /\ mc_args.jump = 2
    /\ mc_args.nsamples = 2
    /\ mc_output[1] # mc_output[2]
    /\ mc_output[1] # seed.array

\* C6 (MMH marginal mode): when MMH is given its target as a list of
\* per-dimension functions, the run tests each coordinate in the marginal
\* branch, and axis j's cached log-density is that axis's marginal
\* log-target at the axis's current state.
C6_MarginalMode ==
    (/\ algorithm = "MMH"
     /\ mc_args.target \in {"log_list", "pdf_list"}
     /\ mc_pc \in {"loop", "done"}) =>
        /\ branch = "MMH_marginal"
        /\ \A j \in 0..(mc_dimension - 1) :
              list_log_p_current[j + 1] = LogMarginal(AxisState(j))

\* C7 (Stretch ensemble invariant): at every stretch move the complementary
\* set is the latest state of each of the other walkers: ensemble_size - 1
\* rows, without the row of the walker being moved, which is that walker's
\* own latest state; the companion s0 is drawn from it, and ensemble_size
\* is the number of seed points throughout.
C7_Complementary ==
    stretch_last # <<>> =>
        LET i == mc_i - 1
            me == stretch_last.walker % ensemble_size
        IN  /\ ensemble_size = Len(seed.array)
            /\ stretch_last.walker = LatestRow(me, i)
            /\ stretch_last.complementary =
                  {LatestRow(v, i) : v \in (0..(ensemble_size - 1)) \ {me}}
            /\ Cardinality(stretch_last.complementary) = ensemble_size - 1
            /\ stretch_last.walker \notin stretch_last.complementary
            /\ stretch_last.s0 \in stretch_last.complementary

\* Two stretch moves have been made, the second with a companion that the
\* first move wrote, and a walker has moved.
C7_Witness ==
    /\ stretch_last # <<>>
    /\ mc_i = ensemble_size + 1
    /\ stretch_last.s0 = ensemble_size
    /\ Row(ensemble_size) # Row(0)
    /\ Row(mc_i) # Row(stretch_last.walker)

\* C8 (Stretch seed requirement): constructing a Stretch sampler succeeds
\* only with a seed that was supplied and has at least 3 points, whatever
\* the dimension.
C8_SeedRequired ==
    (mc_args.algorithm = "Stretch" /\ mc_pc = "done") =>
        /\ mc_args.seed.given
        /\ Len(mc_args.seed.array) >= 3

-----------------------------------------------------------------------------
(* Properties of importance sampling.                                      *)

\* C12 (importance weights normalize): every IS run on inputs init_is is
\* written to accept ends with one weight per drawn point, each weight
\* non-negative, the weights summing to 1.  Weights are fractions [num, den].
C12_WeightsNormalize ==
    (is_pc \notin {"idle", "new"} /\ IsValidCall) =>
        /\ is_pc = "done"
        /\ Len(is_weights) = Len(is_samples)
        /\ \A k \in DOMAIN is_weights :
              /\ is_weights[k].num >= 0
              /\ is_weights[k].den = is_weights[1].den
              /\ is_weights[k].den > 0
        /\ SeqSum([k \in DOMAIN is_weights |-> is_weights[k].num]) = is_weights[1].den

\* C13 (IS resampling): every IS construction on inputs init_is is written
\* to accept leaves an object holding the drawn samples, from which
\* resample(size) returns its points.
C13_Resample ==
    (is_pc \notin {"idle", "new"} /\ IsValidCall) =>
        /\ is_error = "none"
        /\ is_samples # <<>>
        /\ \A k \in DOMAIN is_samples : Len(is_samples[k]) > 0

-----------------------------------------------------------------------------
(* Properties of Krig.                                                     *)

\* The hyperparameters run_krig starts from.
InitialParams ==
    IF krig_args.corr_model_params = <<>> THEN <<1, 1>> ELSE krig_args.corr_model_params

\* C14: when the correlation matrix of the design at the initial
\* hyperparameters is singular, the construction does not end with the
\* factorization of the correlation matrix failing (line 447), and a fitted
\* model has a positive-definite correlation matrix.
C14_PositiveDefiniteGuard ==
    (/\ krig_pc \in {"guard", "optimize", "fitted", "raised"}
     /\ krig_args.corr_model \in CorrBranches
     /\ DetBelowTolerance(krig_args.corr_model, krig_args.samples, InitialParams)) =>
        /\ krig_error # "LinAlgError@447"
        /\ krig_pc = "fitted" =>
              PositiveDefinite(CorrMatrix(krig_args.corr_model, krig_samples, krig_samples,
                                          corr_model_params))

\* C15: a call of log_likelihood never raises: no construction ends with an
\* exception from lines 380-423, and every call made at hyperparameters
\* whose correlation matrix is not positive definite returned the sentinel.
C15_LikelihoodSentinel ==
    /\ krig_error \notin {"LinAlgError@396", "LinAlgError@413"}
    /\ \A e \in krig_evals :
          ~PositiveDefinite(CorrMatrix(krig_args.corr_model, krig_samples, krig_samples, e.p0))
             => e.outcome = "sentinel"

\* The regression matrix of the design and its number of columns p.
DesignF == RegressionMatrix(krig_args.reg_model, krig_args.samples)

\* C16: a construction that was not ended by a check of the model names or
\* by the correlation matrix ends fitted exactly when the rank of the
\* regression matrix is p, and otherwise ends with the error "regression
\* functions are not sufficiently linearly independent".
C16_RankCheck ==
    (/\ krig_pc \in {"fitted", "raised"}
     /\ krig_error \notin {"NotImplementedError: reg_model", "NotImplementedError: corr_model",
                           "LinAlgError@374", "LinAlgError@447"}) =>
        IF MatrixRank(DesignF) = Len(DesignF[1])
        THEN krig_pc = "fitted"
        ELSE krig_pc = "raised" /\ krig_error = "NotImplementedError: rank"

\* C17: the construction is rejected for its regression model only when the
\* name is none of 'Constant', 'Linear' and 'Quadratic'.
C17_RegressionBases ==
    krig_error = "NotImplementedError: reg_model" =>
        krig_args.reg_model \notin {"Constant", "Linear", "Quadratic"}

\* C18: in the correlations last computed for a query, the entry of a point
\* and a site is 0 when theta * |x_k - s_k| >= 1 on some axis k, and 1 when
\* the point and the site coincide.
C18_PiecewiseKernels ==
    krig_corr # <<>> =>
        \A j \in DOMAIN krig_corr.s : \A i \in DOMAIN krig_corr.x :
            LET x == krig_corr.x[i]
                site == krig_corr.s[j]
                theta == krig_corr.params
            IN  /\ (\E k \in DOMAIN x : theta[1] * Abs(x[k] - site[k]) >= theta[2])
                      => krig_corr.rx[j][i] = <<0, 1>>
                /\ x = site => krig_corr.rx[j][i] = <<1, 1>>

\* The fitted state of a Krig object: what it was built from, the design
\* sites, theta, and beta, gamma, sig, F_dash, C_inv, G.
FittedState == <<krig_args, krig_samples, corr_model_params, krig_design>>

\* C19: once the model is fitted, no call of interpolate or jacobian changes
\* the fitted state, and a query returns the same value however many
\* queries were made before it.
C19_ImmutableAfterFit ==
    [][krig_pc = "fitted" =>
         /\ FittedState' = FittedState
         /\ \A a, b \in krig_answers' :
               (a.method = b.method /\ a.x = b.x) => a.y = b.y]_vars

\* Both methods have been called at every query point of a fitted model
\* built on the Spherical kernel, the last query lying beyond the cutoff of
\* some site.
C19_Witness ==
    /\ krig_pc = "fitted"
    /\ krig_design.corr_model = "Spherical"
    /\ Cardinality(krig_answers) = 4
    /\ Len(krig_corr.x) = 1
    /\ \E j \in DOMAIN krig_samples :
          corr_model_params[1] * Abs(krig_corr.x[1][1] - krig_samples[j][1])
             >= corr_model_params[2]

-----------------------------------------------------------------------------
(* Properties of the random draws.                                         *)

\* C20: all the random draws of a run come from one pseudo-random source.
C20_SingleSource == Cardinality(rng_used) <= 1

\* C23: in the MMH loop over a joint target the coordinates of an iteration
\* are taken in the order 0..d-1; between two coordinates the candidate
\* equals the partially updated current vector (a rejected component has been
\* written back), the cached log-density is the log-target of that vector,
\* and the coordinates not yet proposed still hold the previous chain state.
C23_UpdateOrder ==
    /\ [](  (branch = "MMH_joint" /\ mc_pc = "loop" /\ mc_j > 0)
          => /\ candidate = current
             /\ log_p_current = LogTarget(current)
             /\ \A a \in (mc_j + 1)..mc_dimension : current[a] = Row(mc_i)[a])
    /\ [][ (branch = "MMH_joint" /\ mc_pc = "loop" /\ mc_j' # mc_j)
            => /\ mc_j' = (mc_j + 1) % mc_dimension
               /\ mc_i' = IF mc_j' = 0 THEN mc_i + 1 ELSE mc_i ]_vars

\* Coordinate 0 of an iteration was rejected and coordinate 1 is next.
C23_Witness ==
    /\ branch = "MMH_joint"
    /\ mc_pc = "loop"
    /\ mc_j = 1
    /\ mc_i > 0
    /\ current[1] = Row(mc_i)[1]
    /\ candidate = current

\* C27: in MH the cached log_p_current is the log-target of the chain's
\* current state, and in Stretch every entry of list_log_p_current is the
\* log-target of the chain row it was stored for, after any sequence of
\* accepted and rejected proposals; a rejected proposal leaves the cached
\* value of the state it was compared for as it was.
C27_CachedLogDensity ==
    /\ [](  /\ (branch = "MH" /\ mc_pc = "loop")
                => log_p_current = LogTarget(Row(mc_i))
            /\ (branch = "Stretch" /\ mc_pc = "loop")
                => /\ Len(list_log_p_current) = mc_i + 1
                   /\ \A k \in 1..Len(list_log_p_current) :
                        list_log_p_current[k] = LogTarget(mc_samples[k]))
    /\ [][ (mc_pc = "loop" /\ n_proposals' = n_proposals + 1 /\ n_accepts' = n_accepts)
            => /\ branch = "MH" => log_p_current' = log_p_current
               /\ branch = "Stretch" =>
                     list_log_p_current'[mc_i + 2] =
                         list_log_p_current[mc_i - ensemble_size + 2] ]_vars

\* A Stretch run that has accepted one move and rejected another, the
\* accepted one having changed the walker's log-density.
C27_Witness ==
    /\ branch = "Stretch"
    /\ mc_pc = "loop"
    /\ 0 < n_accepts
    /\ n_accepts < n_proposals
    /\ \E k \in 1..(Len(list_log_p_current) - ensemble_size) :
          list_log_p_current[k + ensemble_size] # list_log_p_current[k]

\* C30: an MH or MMH run with nsamples * jump + nburn = 1 makes no proposal,
\* ends normally, returns the seed as its single sample and has an acceptance
\* ratio with a non-zero denominator.
C30_DegenerateChain ==
    (branch \in {"MH", "MMH_marginal", "MMH_joint"} /\ ChainLen = 1 /\ mc_pc # "loop")
        => /\ mc_pc = "done"
           /\ mc_output = <<seed.array>>
           /\ accept_ratio.den # 0

\* C24: every one of the nsamples rows a Stretch run returns is a row of the
\* chain that was filled by the seed or by an accept/reject step (rows
\* 0 .. nsamples * jump - 1), taken from whole generations of ensemble_size
\* walkers, jump generations apart, starting with generation jump - 1; no
\* returned row is a row of zeros that was never filled.
C24_StretchOutput ==
    LET SourceRow(r) ==
            (mc_args.jump * ensemble_size - ensemble_size)
            + ((r - 1) \div ensemble_size) * mc_args.jump * ensemble_size
            + ((r - 1) % ensemble_size)
    IN  (branch = "Stretch" /\ mc_pc = "done")
            => /\ Len(mc_output) = mc_args.nsamples
               /\ \A r \in 1..mc_args.nsamples :
                    /\ SourceRow(r) < mc_args.nsamples * mc_args.jump
                    /\ mc_output[r] = mc_samples[SourceRow(r) + 1]

\* C28: in Refined mode, from a full-factorial partition on, the largest
\* stratum weight is at most twice the smallest one after every iteration.
C28_RefinedBalance ==
    option = "Refined"
        => \A k \in DOMAIN weights : SeqMax(weights) <= 2 * weights[k]

\* Two Refined iterations have run and the partition holds strata of two
\* sizes, the larger twice the smaller.
C28_Witness ==
    /\ option = "Refined"
    /\ n_iter >= 2
    /\ \E k \in DOMAIN weights : SeqMax(weights) = 2 * weights[k]

\* C25: constructing and running RSS on a design x leaves x as it was: no
\* step of the run changes x's samples, x's unit-cube samples or the origins,
\* widths and weights of x's strata.
C25_InputUnchanged == [][x_design' = x_design]_vars

\* C26: when a window loop of the local update is about to be left, every
\* point it selected lies, in every coordinate, no further than ff * max_dim
\* below and no further than ff * max_dim above the new sample, ff being the
\* window factor at that moment (the box is inside the unit cube, as all
\* samples are).
C26_LocalWindow ==
    LET new == samplesU01[Len(samplesU01)]
        InsideBox(k) ==
            \A a \in Axes :
                /\ samplesU01[k + 1][a] * Common(a) >= new[a] * Common(a) - ff * max_dim
                /\ samplesU01[k + 1][a] * Common(a) <= new[a] * Common(a) + ff * max_dim
    IN  /\ (rss_pc = "train" /\ ~(Cardinality(ind_train) < min_train_size[1]))
            => \A k \in ind_train : InsideBox(k)
        /\ (rss_pc = "update" /\ ~(2 * Cardinality(ind_update) < min_train_size[1]))
            => \A k \in ind_update : InsideBox(k)

\* C29: with an integer min_train_size, a window-growing loop of the local
\* update (for the training set, then for the gradient-update set) that has
\* been entered is left after finitely many enlargements, and the iteration
\* of the RSS loop goes on.
C29_WindowLoopsTerminate ==
    (rss_pc \in {"train", "update"}) ~> (rss_pc = "run")

\* The training loop is about to be left after the window was enlarged:
\* its first pass did not collect min_train_size points.
C29_Witness ==
    /\ rss_pc = "train"
    /\ ff >= 4
    /\ Cardinality(ind_train) >= min_train_size[1]


\* C22: after a successful fit, the model queried at its own design sites
\* returns the training responses: interpolate(samples) equals values.
C22_InterpolationExact ==
    krig_pc = "fitted" =>
        /\ Len(krig_check) = Len(krig_args.values)
        /\ \A i \in DOMAIN krig_check : krig_check[i] = <<krig_args.values[i], 1>>

\* A fit with more sites than regression functions, whose residual
\* y_ - f_ beta is not zero, has been queried at its own sites.
C22_Witness ==
    /\ krig_pc = "fitted"
    /\ krig_check # <<>>
    /\ Len(krig_samples) > Len(regress(krig_args.reg_model, krig_samples[1]))
    /\ \E j \in DOMAIN krig_samples :
          gamma(krig_args, krig_samples, corr_model_params)[j][1] # 0


\* C21: a stratum design loaded from a file is accepted exactly when the sum
\* over its strata of the product of the widths is within 1e-5 of 1; with a
\* smaller or larger sum the construction ends without a Strata object.
C21_FileLoadValidation ==
    st_pc \notin {"idle", "new"} =>
        LET w == WidthColumns(input_file)
            n == Len(w[1])
            d == Unity(n) - SpaceFill(w)
            within == d <= Unity(n) \div Tolerance /\ -d <= Unity(n) \div Tolerance
        IN  /\ st_pc = "done" <=> within
            /\ st_pc = "done" => Len(st_weights) = Len(input_file)
            /\ st_pc # "done" => st_weights = <<>>

=============================================================================
